---- MODULE Spec2Model ----
(***************************************************************************)
(* A model of joist's Sim: the frame scheduler (stepSimulationAction,      *)
(* runAnimationLoop, stepOneFrame), the resize/layout coordinator          *)
(* (resizeAction, resizeToWindow), the screen switch listeners             *)
(* (screenProperty) and the popup stack (showPopup, hidePopup).            *)
(*                                                                         *)
(* Representation of numbers.  Every quantity the code holds in            *)
(* milliseconds (Date.now(), lastStepTime, phet.joist.elapsedTime) is      *)
(* stored multiplied by 60, and every quantity it holds in seconds (dt,    *)
(* maxDT) is stored multiplied by 60, so that the first-frame guess of     *)
(* 1/60 s is the integer 1 and the code's "/ 1000.0" and "* 1000" stay     *)
(* what they are.  Host clock readings are multiples of 1000 units, which  *)
(* keeps the division in getDT exact.  Lengths (pixels) are exact          *)
(* rationals stored as numerators over LayoutDen.                          *)
(***************************************************************************)
EXTENDS Integers, Sequences, FiniteSets, TLC

\* ------------------------------------------------------------------ bounds
NumDeclaredScreens == 2   \* allSimScreens is 1..NumDeclaredScreens
NumPopups == 2            \* popup nodes are 1..NumPopups
MaxFrames == 2            \* stepSimulation runs at most this often
MaxStack == 3             \* modalNodeStack holds at most this many entries
MaxDeclaredScreens == 3   \* selectScreens is given at most this many screens

\* ------------------------------------------------------- program constants
LayoutWidth == 768        \* HomeScreenView.LAYOUT_BOUNDS.width
LayoutHeight == 504       \* HomeScreenView.LAYOUT_BOUNDS.height
NavBarHeight == 40        \* NavigationBar.NAVIGATION_BAR_SIZE.height
MsPerSecond == 1000       \* the factor of dt * 1000 and of / 1000.0
TimeNotRecorded == -1     \* lastStepTime before the first frame
LayoutDen == LayoutWidth * LayoutHeight

\* The home screen's identity; sim screens are 1..NumDeclaredScreens.
HomeScreen == 0
\* "no screen": the absent home screen, and a callback that selects nothing.
NoScreen == -1
\* What a callback does instead of returning when it throws.
Raises == -2

\* The calls of the callback of launch() after which launchSimulation is no
\* longer called.
MaxCallbackCalls == 3
AllSimScreens == 1 .. NumDeclaredScreens
Popups == 1 .. NumPopups

Min(a, b) == IF a <= b THEN a ELSE b
B2N(b) == IF b THEN 1 ELSE 0
SeqToSet(q) == { q[i] : i \in 1 .. Len(q) }

\* ---------------------------------------------------------------- screens
\* screen.maxDT: 0 stands for "not declared" (falsy in `if ( screen.maxDT )`).
\* The even-numbered sim screens declare a cap of 2 units; the others and the
\* home screen declare none.
ScreenMaxDT(s) == IF s # HomeScreen /\ s % 2 = 0 THEN 2 ELSE 0
\* screen.model.step is optional: the home screen's model has none.
HasModelStep(s) == s # HomeScreen
\* screen.view.step is optional: every view but that of the odd sim screens
\* above 1 has one.
HasViewStep(s) == s <= 2

\* n declared screens, in the order they are declared in.
DeclaredScreens(n) == [i \in 1 .. n |-> i]

\* selectScreens: the runtime screens of a run.  allSimScreens are the
\* declared screens, subset is the `screens` query parameter as a sequence of
\* 1-based indices (<<>>: not given), homeQP the `homeScreen` query parameter,
\* initial the `initialScreen` query parameter (NoScreen: not given;
\* HomeScreen: the home screen; otherwise the 1-based index of a declared
\* screen).
\* As SelectedSimScreens, with the screens in the order the subset lists them.
SelectedSimScreens_SubsetOrder(allSimScreens, subset) ==
  IF subset = <<>> THEN allSimScreens
  ELSE subset

SelectedSimScreens(allSimScreens, subset) ==
  IF subset = <<>> THEN allSimScreens
  ELSE SelectSeq(allSimScreens, LAMBDA x : x \in SeqToSet(subset))
\* As SelectHomeScreen, counting the declared screens, not the selected ones.
SelectHomeScreen_DeclaredCount(selected, homeQP) ==
  IF NumDeclaredScreens > 1 /\ homeQP THEN HomeScreen ELSE NoScreen

SelectHomeScreen(selected, homeQP) ==
  IF Len(selected) > 1 /\ homeQP THEN HomeScreen ELSE NoScreen
SelectScreensList(selected, home) ==
  IF home = NoScreen THEN selected ELSE <<home>> \o selected
\* As SelectInitialScreen, with the index taken as a place in the list of
\* the selected screens.
SelectInitialScreen_PlaceInSelected(selected, home, initial) ==
  IF initial = HomeScreen THEN home
  ELSE IF initial # NoScreen
    THEN (IF initial <= Len(selected) THEN selected[initial] ELSE selected[1])
  ELSE IF home # NoScreen THEN home
  ELSE selected[1]

SelectInitialScreen(selected, home, initial) ==
  IF initial # NoScreen THEN initial
  ELSE IF home # NoScreen THEN home
  ELSE selected[1]
\* allScreensCreated: every declared screen is among the selected ones.
AllScreensCreated(allSimScreens, selected) == SeqToSet(selected) = SeqToSet(allSimScreens)
\* What selectScreens returns, with the arguments it was given.
SelectScreens(allSimScreens, screensQueryParameter, homeScreenQueryParameter, initialScreenIndex) ==
  LET selected == SelectedSimScreens(allSimScreens, screensQueryParameter)
      home == SelectHomeScreen(selected, homeScreenQueryParameter)
  IN  [ allSimScreens |-> allSimScreens,
        screensQueryParameter |-> screensQueryParameter,
        homeScreenQueryParameter |-> homeScreenQueryParameter,
        initialScreenIndex |-> initialScreenIndex,
        selectedSimScreens |-> selected,
        homeScreen |-> home,
        screens |-> SelectScreensList(selected, home),
        initialScreen |-> SelectInitialScreen(selected, home, initialScreenIndex),
        allScreensCreated |-> AllScreensCreated(allSimScreens, selected) ]
\* The values of the `screens` query parameter that pass validation for n
\* declared screens: the sequences of declared screens without repetition.
ScreensQueryParameters(n) ==
  { q \in UNION { [1 .. k -> 1 .. n] : k \in 1 .. n } :
      \A i, j \in 1 .. Len(q) : q[i] = q[j] => i = j }

\* The option sets a run is started with: phet.chipper.queryParameters.speed,
\* playbackMode, Tandem.PHET_IO_ENABLED, window.TWEEN, supportsPanAndZoom,
\* options.vibrationManager, whether a Toolbar was created and, if so, what
\* its getDisplayedWidth() returns (in pixels).
OptionSets ==
  { [speed |-> 1, playbackMode |-> FALSE, phetio |-> FALSE, tween |-> TRUE,
     panAndZoom |-> TRUE, vibration |-> FALSE, toolbar |-> FALSE, toolbarWidth |-> 0],
    [speed |-> 2, playbackMode |-> FALSE, phetio |-> TRUE, tween |-> FALSE,
     panAndZoom |-> TRUE, vibration |-> TRUE, toolbar |-> TRUE, toolbarWidth |-> 48],
    [speed |-> 1, playbackMode |-> TRUE, phetio |-> TRUE, tween |-> FALSE,
     panAndZoom |-> FALSE, vibration |-> FALSE, toolbar |-> TRUE, toolbarWidth |-> 0] }

\* window.innerWidth / window.innerHeight as the host reports them.
WindowSizes == { <<768, 504>>, <<1024, 504>> }
\* Arguments of resize( width, height ) that are not both positive.
DegenerateSizes == { <<0, 504>>, <<768, 0>>, <<-1, 504>>, <<768, -1>> }
InitialWindowSize == <<768, 504>>
\* The dt arguments of direct stepSimulation( dt ) calls.
DtInputs == { -1, 0, 3 }

VARIABLES
  options,              \* query parameters and Sim options, fixed at construction
  simScreens,           \* Sim.simScreens
  screens,              \* Sim.screens
  homeScreen,           \* Sim.homeScreen
  screenData,           \* what a call of selectScreens returned, <<>> before any
  screenProperty,       \* Sim.screenProperty.value
  viewVisible,          \* screen.view.visible, per screen
  screenActive,         \* screen.activeProperty.value, per screen
  activeProperty,       \* Sim.activeProperty.value
  frameCounter,         \* Sim.frameCounter
  elapsedTime,          \* phet.joist.elapsedTime
  resizePending,        \* Sim.resizePending
  windowSize,           \* <<window.innerWidth, window.innerHeight>>
  dimensionProperty,    \* Sim.dimensionProperty.value
  scaleProperty,        \* Sim.scaleProperty.value, numerator over LayoutDen
  boundsProperty,       \* Sim.boundsProperty.value, <<>> for null
  screenBoundsProperty, \* Sim.screenBoundsProperty.value, <<>> for null
  lastStepTime,         \* Sim.lastStepTime
  lastAnimationFrameTime, \* Sim.lastAnimationFrameTime
  modalNodeStack,       \* Sim.modalNodeStack
  topLayer,             \* Sim.topLayer.children without the barrier rectangle
  barrierVisible,       \* Sim.barrierRectangle.visible
  frameRequested,       \* a requestAnimationFrame callback of runAnimationLoop is queued
  resizeEvents,         \* history: window resize events since the last tick (2: several)
  loopError,            \* history: a tick of the animation loop has thrown an error
  replica,              \* a second run of the Sim (its fields, as in Cur) that is given
                        \* the calls of the first, in a host window of its own; <<>>
                        \* while there is none
  trace,                \* what the last operation did, in order
  workItem,             \* Sim.start: the number of work items that have run
  initialized,          \* Sim.start: the initializeModel and initializeView calls so far
  isConstructionCompleteProperty, \* Sim.isConstructionCompleteProperty.value
  isShowing,            \* PhetMenu.isShowing
  launchCalled,         \* window.phet.joist.launchCalled
  launchComplete,       \* SimLauncher.launchComplete
  launchSimulation,     \* window.phet.joist.launchSimulation is defined
  readyToProceed,       \* asyncLoader holds the callback launch() gave it
  callbackCalls,        \* history: calls of the callback given to launch()
  locales,              \* localeProperty.ts: locales, <<>> before the module is loaded
  localeProperty        \* localeProperty.value, NoLocale before the module is loaded

simVars == << screenProperty, viewVisible, screenActive, frameCounter, elapsedTime,
              resizePending, dimensionProperty, scaleProperty, boundsProperty,
              screenBoundsProperty, trace >>
configVars == << options, simScreens, screens, homeScreen, screenData >>
popupVars == << modalNodeStack, topLayer, barrierVisible >>
loopVars == << lastStepTime, lastAnimationFrameTime, frameRequested >>
startVars == << workItem, initialized, isConstructionCompleteProperty >>
launchVars == << launchCalled, launchComplete, launchSimulation, readyToProceed, callbackCalls >>
localeVars == << locales, localeProperty >>
sideVars == << startVars, isShowing, launchVars, localeVars >>
vars == << configVars, simVars, popupVars, loopVars, activeProperty, windowSize, resizeEvents,
          loopError, replica, sideVars >>

\* No locale: localeProperty.ts has not been loaded.
NoLocale == <<>>

\* The fields of Sim an operation may write, as one record the operators below
\* transform; Commit writes the record back.
Cur ==
  [ screenProperty |-> screenProperty, viewVisible |-> viewVisible,
    screenActive |-> screenActive, frameCounter |-> frameCounter,
    elapsedTime |-> elapsedTime, resizePending |-> resizePending,
    dimensionProperty |-> dimensionProperty, scaleProperty |-> scaleProperty,
    boundsProperty |-> boundsProperty, screenBoundsProperty |-> screenBoundsProperty,
    windowSize |-> windowSize, trace |-> <<>>, dt |-> 0, screen |-> NoScreen,
    error |-> FALSE, isSettingPhetioState |-> FALSE, assertions |-> TRUE ]
Commit(s) ==
  /\ screenProperty' = s.screenProperty
  /\ viewVisible' = s.viewVisible
  /\ screenActive' = s.screenActive
  /\ frameCounter' = s.frameCounter
  /\ elapsedTime' = s.elapsedTime
  /\ resizePending' = s.resizePending
  /\ dimensionProperty' = s.dimensionProperty
  /\ scaleProperty' = s.scaleProperty
  /\ boundsProperty' = s.boundsProperty
  /\ screenBoundsProperty' = s.screenBoundsProperty
  /\ trace' = s.trace

\* One entry of the trace: what happened, to which screen or popup (or with
\* which first argument), with which number or rectangle.
Log(s, what, who, n) == [s EXCEPT !.trace = Append(@, <<what, who, n>>)]

\* An error is thrown and not caught: what follows in the callers is skipped.
Throw(s, who) == Log([s EXCEPT !.error = TRUE], "throw", who, 0)

\* ---------------------------------------------------------- screen switch
\* screen.activeProperty.set( value ) and screen.view.setVisible( value ).
SetScreenActive(s, screen, value) ==
  Log([s EXCEPT !.screenActive[screen] = value], "activeProperty.set", screen, B2N(value))
SetViewVisible(s, screen, value) ==
  Log([s EXCEPT !.viewVisible[screen] = value], "setVisible", screen, B2N(value))

\* As ScreenListenerLoop, never making a screen inactive.
RECURSIVE ScreenListenerLoop_NoDeactivate(_, _, _)
ScreenListenerLoop_NoDeactivate(s, currentScreen, i) ==
  IF i > Len(screens) THEN s
  ELSE LET screen == screens[i]
           visible == screen = currentScreen
           s1 == IF visible THEN SetScreenActive(s, screen, visible) ELSE s
           s2 == SetViewVisible(s1, screen, visible)
       IN  ScreenListenerLoop_NoDeactivate(s2, currentScreen, i + 1)

\* As ScreenListenerLoop, setting the active flag of a screen after its view
\* has been made visible.
RECURSIVE ScreenListenerLoop_VisibleFirst(_, _, _)
ScreenListenerLoop_VisibleFirst(s, currentScreen, i) ==
  IF i > Len(screens) THEN s
  ELSE LET screen == screens[i]
           visible == screen = currentScreen
           s1 == SetViewVisible(s, screen, visible)
           s2 == SetScreenActive(s1, screen, visible)
       IN  ScreenListenerLoop_VisibleFirst(s2, currentScreen, i + 1)

\* The body of the forEach of the screenProperty listener of finishInit, for
\* the screen at index i and the ones after it.
RECURSIVE ScreenListenerLoop(_, _, _)
ScreenListenerLoop(s, currentScreen, i) ==
  IF i > Len(screens) THEN s
  ELSE LET screen == screens[i]
           visible == screen = currentScreen
           s1 == IF visible THEN SetScreenActive(s, screen, visible) ELSE s
           s2 == SetViewVisible(s1, screen, visible)
           s3 == IF ~visible THEN SetScreenActive(s2, screen, visible) ELSE s2
       IN  ScreenListenerLoop(s3, currentScreen, i + 1)

\* As ScreenListener, leaving the pan/zoom transform as it is.
ScreenListener_NoReset(s, currentScreen) ==
  LET s1 == ScreenListenerLoop(s, currentScreen, 1)
  IN  Log(s1, "updateBackground", currentScreen, 0)

\* The screenProperty listener finishInit links: visibility and activity of
\* every screen, the background and, unless PhET-iO is setting the state of
\* the sim (isSettingPhetioStateProperty), the pan/zoom transform.
ScreenListener(s, currentScreen) ==
  LET s1 == ScreenListenerLoop(s, currentScreen, 1)
      s2 == Log(s1, "updateBackground", currentScreen, 0)
  IN  IF s.isSettingPhetioState THEN s2 ELSE Log(s2, "resetTransform", currentScreen, 0)

\* As NotifyScreenListeners, with the visibility listener notified before the
\* input interrupt.
NotifyScreenListeners_InterruptLast(s, newScreen, oldScreen) ==
  LET s1 == Log(s, "updateBackground", newScreen, 0)
      s2 == ScreenListener(s1, newScreen)
  IN  Log(s2, "interruptSubtreeInput", oldScreen, 0)

\* The listeners of screenProperty in the order they were linked: the
\* background (constructor), the input interrupt of the old screen
\* (constructor, lazyLink), the visibility listener (finishInit).
NotifyScreenListeners(s, newScreen, oldScreen) ==
  LET s1 == Log(s, "updateBackground", newScreen, 0)
      s2 == Log(s1, "interruptSubtreeInput", oldScreen, 0)
  IN  ScreenListener(s2, newScreen)

\* As SetScreenProperty, notifying the listeners of every assignment.
SetScreenProperty_AlwaysNotifies(s, newScreen) ==
  NotifyScreenListeners([s EXCEPT !.screenProperty = newScreen], newScreen, s.screenProperty)

\* screenProperty.value = newScreen: a Property notifies its listeners only
\* when the value changes.
SetScreenProperty(s, newScreen) ==
  IF newScreen = s.screenProperty THEN s
  ELSE NotifyScreenListeners([s EXCEPT !.screenProperty = newScreen],
                             newScreen, s.screenProperty)

\* ------------------------------------------------------------------ resize
\* _.each( this.screens, m => m.view.layout( availableScreenBounds ) )
RECURSIVE LayoutScreens(_, _, _)
LayoutScreens(s, availableScreenBounds, i) ==
  IF i > Len(screens) THEN s
  ELSE LayoutScreens(Log(s, "view.layout", screens[i], availableScreenBounds),
                     availableScreenBounds, i + 1)

\* popup.layout is optional: the odd-numbered popups have one.
PopupHasLayout(popup) == popup % 2 = 1

\* As LayoutTopLayer, giving the popups the bounds of the whole window, the
\* navigation bar included.
RECURSIVE LayoutTopLayer_FullBounds(_, _, _)
LayoutTopLayer_FullBounds(s, availableScreenBounds, i) ==
  IF i > Len(topLayer) THEN s
  ELSE LayoutTopLayer_FullBounds(
         IF PopupHasLayout(topLayer[i])
           THEN Log(s, "popup.layout", topLayer[i],
                    <<0, 0, s.dimensionProperty[1] * LayoutDen, s.dimensionProperty[2] * LayoutDen>>)
           ELSE s,
         availableScreenBounds, i + 1)

\* this.topLayer.children.forEach( child => child.layout && child.layout( ... ) )
RECURSIVE LayoutTopLayer(_, _, _)
LayoutTopLayer(s, availableScreenBounds, i) ==
  IF i > Len(topLayer) THEN s
  ELSE LayoutTopLayer(IF PopupHasLayout(topLayer[i])
                        THEN Log(s, "popup.layout", topLayer[i], availableScreenBounds)
                        ELSE s,
                      availableScreenBounds, i + 1)

\* As ResizeAction, writing the scale, bounds and screen bounds properties
\* before the screens and popups are laid out.
ResizeAction_GeometryFirst(s, width, height) ==
  LET s0 == Log(s, "resizeAction", width, height)
      s1 == [s0 EXCEPT !.dimensionProperty = <<width, height>>]
      scale == Min(width * LayoutHeight, height * LayoutWidth)
      navBarHeight == scale * NavBarHeight
      s2 == Log(s1, "navigationBar.layout", scale, navBarHeight)
      s3a == Log(s2, "display.setSize", width, height)
      screenHeight == height * LayoutDen - navBarHeight
      s3 == IF options.toolbar THEN Log(s3a, "toolbar.layout", scale, screenHeight) ELSE s3a
      screenMinX == IF options.toolbar THEN options.toolbarWidth * LayoutDen ELSE 0
      availableScreenBounds == <<screenMinX, 0, width * LayoutDen, screenHeight>>
      s4 == Log([s3 EXCEPT !.scaleProperty = scale], "scaleProperty", 0, scale)
      s5 == Log([s4 EXCEPT !.boundsProperty = <<0, 0, width * LayoutDen, height * LayoutDen>>],
                "boundsProperty", width, height)
      s6 == Log([s5 EXCEPT !.screenBoundsProperty = availableScreenBounds],
                "screenBoundsProperty", 0, availableScreenBounds)
      s7 == LayoutScreens(s6, availableScreenBounds, 1)
      s8 == LayoutTopLayer(s7, availableScreenBounds, 1)
  IN  IF width = 0 \/ height = 0 THEN s1
      ELSE Log(s8, "panZoom.setTarget", 0, scale)

\* As ResizeAction, with the screens placed to the right of where the last
\* resize placed them.
ResizeAction_RelativeToLast(s, width, height) ==
  LET s0 == Log(s, "resizeAction", width, height)
      s1 == [s0 EXCEPT !.dimensionProperty = <<width, height>>]
      scale == Min(width * LayoutHeight, height * LayoutWidth)
      navBarHeight == scale * NavBarHeight
      s2 == Log(s1, "navigationBar.layout", scale, navBarHeight)
      s3a == Log(s2, "display.setSize", width, height)
      screenHeight == height * LayoutDen - navBarHeight
      s3 == IF options.toolbar THEN Log(s3a, "toolbar.layout", scale, screenHeight) ELSE s3a
      screenMinX == IF s.screenBoundsProperty = <<>> THEN 0
                    ELSE s.screenBoundsProperty[1] + LayoutDen
      availableScreenBounds == <<screenMinX, 0, width * LayoutDen, screenHeight>>
      s4 == LayoutScreens(s3, availableScreenBounds, 1)
      s5 == LayoutTopLayer(s4, availableScreenBounds, 1)
      s6 == Log([s5 EXCEPT !.scaleProperty = scale], "scaleProperty", 0, scale)
      s7 == Log([s6 EXCEPT !.boundsProperty = <<0, 0, width * LayoutDen, height * LayoutDen>>],
                "boundsProperty", width, height)
      s8 == Log([s7 EXCEPT !.screenBoundsProperty = availableScreenBounds],
                "screenBoundsProperty", 0, availableScreenBounds)
  IN  Log(s8, "panZoom.setTarget", 0, scale)

\* The listener of resizeAction.  Lengths are numerators over LayoutDen
\* (width and height, which the caller passes, are whole pixels).  In a build
\* with assertions the listener fails at its first statement unless width
\* and height are positive; in a build without, it returns early if one of
\* them is zero, after it has written dimensionProperty.  The toolbar's
\* layout leaves the toolbar's rightPositionProperty as it is.
ResizeAction(s, width, height) ==
  LET s0 == Log(s, "resizeAction", width, height)
      s1 == [s0 EXCEPT !.dimensionProperty = <<width, height>>]
      scale == Min(width * LayoutHeight, height * LayoutWidth)
      navBarHeight == scale * NavBarHeight
      s2 == Log(s1, "navigationBar.layout", scale, navBarHeight)
      s3a == Log(s2, "display.setSize", width, height)
      screenHeight == height * LayoutDen - navBarHeight
      s3 == IF options.toolbar THEN Log(s3a, "toolbar.layout", scale, screenHeight) ELSE s3a
      screenMinX == IF options.toolbar THEN options.toolbarWidth * LayoutDen ELSE 0
      availableScreenBounds == <<screenMinX, 0, width * LayoutDen, screenHeight>>
      s4 == LayoutScreens(s3, availableScreenBounds, 1)
      s5 == LayoutTopLayer(s4, availableScreenBounds, 1)
      s6 == Log([s5 EXCEPT !.scaleProperty = scale], "scaleProperty", 0, scale)
      s7 == Log([s6 EXCEPT !.boundsProperty = <<0, 0, width * LayoutDen, height * LayoutDen>>],
                "boundsProperty", width, height)
      s8 == Log([s7 EXCEPT !.screenBoundsProperty = availableScreenBounds],
                "screenBoundsProperty", 0, availableScreenBounds)
  IN  IF s.assertions /\ ~(width > 0 /\ height > 0)
        THEN Log([s0 EXCEPT !.error = TRUE], "assert", width, height)
      ELSE IF width = 0 \/ height = 0 THEN s1
      ELSE Log(s8, "panZoom.setTarget", 0, scale)

Resize(s, width, height) == ResizeAction(s, width, height)

\* The first part of the listener of resizeAction: dimensionProperty, the
\* navigation bar, the size of the display and the toolbar.
ResizeLayoutBars(s, width, height) ==
  LET s0 == Log(s, "resizeAction", width, height)
      s1 == [s0 EXCEPT !.dimensionProperty = <<width, height>>]
      scale == Min(width * LayoutHeight, height * LayoutWidth)
      navBarHeight == scale * NavBarHeight
      s2 == Log(s1, "navigationBar.layout", scale, navBarHeight)
      s3a == Log(s2, "display.setSize", width, height)
      screenHeight == height * LayoutDen - navBarHeight
  IN  IF options.toolbar THEN Log(s3a, "toolbar.layout", scale, screenHeight) ELSE s3a

\* The second part: the screens and the popups are laid out, then scale,
\* bounds and screen bounds are written and the pan/zoom target is set.
ResizeLayoutScreens(s3, width, height) ==
  LET scale == Min(width * LayoutHeight, height * LayoutWidth)
      screenHeight == height * LayoutDen - scale * NavBarHeight
      screenMinX == IF options.toolbar THEN options.toolbarWidth * LayoutDen ELSE 0
      availableScreenBounds == <<screenMinX, 0, width * LayoutDen, screenHeight>>
      s4 == LayoutScreens(s3, availableScreenBounds, 1)
      s5 == LayoutTopLayer(s4, availableScreenBounds, 1)
      s6 == Log([s5 EXCEPT !.scaleProperty = scale], "scaleProperty", 0, scale)
      s7 == Log([s6 EXCEPT !.boundsProperty = <<0, 0, width * LayoutDen, height * LayoutDen>>],
                "boundsProperty", width, height)
      s8 == Log([s7 EXCEPT !.screenBoundsProperty = availableScreenBounds],
                "screenBoundsProperty", 0, availableScreenBounds)
  IN  Log(s8, "panZoom.setTarget", 0, scale)

\* The listener of resizeAction as run by the resize that the toolbar's
\* listener calls while a resize is under way; its own layout of the toolbar
\* leaves the toolbar where the outer one has put it.
ResizeActionNested(s, width, height) ==
  LET s0 == Log(s, "resizeAction", width, height)
      s1 == [s0 EXCEPT !.dimensionProperty = <<width, height>>]
  IN  IF s.assertions /\ ~(width > 0 /\ height > 0)
        THEN Log([s0 EXCEPT !.error = TRUE], "assert", width, height)
      ELSE IF width = 0 \/ height = 0 THEN s1
      ELSE ResizeLayoutScreens(ResizeLayoutBars(s, width, height), width, height)

\* The listener of resizeAction where the toolbar's layout changes the
\* toolbar's rightPositionProperty: the listener of that property calls
\* resize with the width and height of boundsProperty.value before the layout
\* returns, and throws a TypeError if that value is still null.
ResizeActionReentered(s, width, height) ==
  LET s0 == Log(s, "resizeAction", width, height)
      s1 == [s0 EXCEPT !.dimensionProperty = <<width, height>>]
      s3b == Log(ResizeLayoutBars(s, width, height), "rightPositionProperty", 0, 0)
      s3 == IF s3b.boundsProperty = <<>> THEN Throw(s3b, 0)
            ELSE ResizeActionNested(s3b, s3b.boundsProperty[3] \div LayoutDen,
                                    s3b.boundsProperty[4] \div LayoutDen)
  IN  IF s.assertions /\ ~(width > 0 /\ height > 0)
        THEN Log([s0 EXCEPT !.error = TRUE], "assert", width, height)
      ELSE IF width = 0 \/ height = 0 THEN s1
      ELSE IF s3.error THEN s3
      ELSE ResizeLayoutScreens(s3, width, height)

\* As ResizeToWindow, leaving the pending flag as it is.
ResizeToWindow_KeepPending(s) ==
  Resize(s, s.windowSize[1], s.windowSize[2])

\* resizeToWindow()
ResizeToWindow(s) ==
  Resize([s EXCEPT !.resizePending = FALSE], s.windowSize[1], s.windowSize[2])

\* As ResizeListener, marking a resize as pending in playback mode too.
ResizeListener_AlwaysPending(s, size) ==
  Log([s EXCEPT !.windowSize = size, !.resizePending = TRUE],
      "resizeListener", size[1], size[2])

\* resizeListener, when the window has got the given size.
ResizeListener(s, size) ==
  Log([s EXCEPT !.windowSize = size,
                !.resizePending = IF options.playbackMode THEN @ ELSE TRUE],
      "resizeListener", size[1], size[2])

\* ------------------------------------------------------------ one tick
\* As StepBegin, fitting the sim to the window in every tick.
StepBegin_AlwaysResizes(s, dt) ==
  LET s1 == Log(s, "frameStarted", 0, 0)
      s2 == Log([s1 EXCEPT !.frameCounter = @ + 1], "frameCounter", 0, s1.frameCounter + 1)
      s3 == Log([s2 EXCEPT !.dt = dt * options.speed], "speed", 0, dt * options.speed)
  IN  ResizeToWindow(Log(s3, "resizeToWindow", 0, 0))

\* frameStartedEmitter.emit(), frameCounter++, dt *= speed, the pending resize.
StepBegin(s, dt) ==
  LET s1 == Log(s, "frameStarted", 0, 0)
      s2 == Log([s1 EXCEPT !.frameCounter = @ + 1], "frameCounter", 0, s1.frameCounter + 1)
      s3 == Log([s2 EXCEPT !.dt = dt * options.speed], "speed", 0, dt * options.speed)
  IN  IF s3.resizePending THEN ResizeToWindow(Log(s3, "resizeToWindow", 0, 0)) ELSE s3

\* const screen = this.screenProperty.value, and dt capped by screen.maxDT.
StepSelectScreen(s) ==
  LET screen == s.screenProperty
      s1 == Log([s EXCEPT !.screen = screen], "screen", screen, 0)
  IN  IF ScreenMaxDT(screen) # 0
        THEN Log([s1 EXCEPT !.dt = Min(@, ScreenMaxDT(screen))],
                 "clamp", screen, Min(s1.dt, ScreenMaxDT(screen)))
        ELSE s1

\* As StepTime, advancing the elapsed time by a positive dt only.
StepTime_PositiveOnly(s) ==
  LET add == IF s.dt > 0 THEN s.dt * MsPerSecond ELSE 0
      s1 == Log([s EXCEPT !.elapsedTime = @ + add], "elapsedTime", 0, s.dt)
  IN  Log(s1, "stepTimer", 0, s.dt)

\* phet.joist.elapsedTime += dt * 1000, then stepTimer.emit( dt ).
StepTime(s) ==
  LET s1 == Log([s EXCEPT !.elapsedTime = @ + s.dt * MsPerSecond], "elapsedTime", 0, s.dt)
  IN  Log(s1, "stepTimer", 0, s.dt)

\* As StepModel, stepping the model for a positive dt only.
StepModel_PositiveOnly(s, does) ==
  IF HasModelStep(s.screen) /\ s.dt > 0
    THEN LET s1 == Log(s, "model.step", s.screen, s.dt)
         IN  IF does = NoScreen THEN s1
             ELSE IF does = Raises THEN Throw(s1, s.screen)
             ELSE SetScreenProperty(s1, does)
    ELSE s

\* screen.model.step( dt ) if the model has a step and dt is truthy.  What
\* the model's step does to Sim is to select a screen, nothing (NoScreen),
\* or to throw (Raises).
StepModel(s, does) ==
  IF HasModelStep(s.screen) /\ s.dt # 0
    THEN LET s1 == Log(s, "model.step", s.screen, s.dt)
         IN  IF does = NoScreen THEN s1
             ELSE IF does = Raises THEN Throw(s1, s.screen)
             ELSE SetScreenProperty(s1, does)
    ELSE s

\* TWEEN.update, the pan/zoom listener's step, the vibration manager's step.
StepAncillary(s) ==
  LET s1 == IF options.tween THEN Log(s, "TWEEN.update", 0, s.elapsedTime) ELSE s
      s2 == IF options.panAndZoom THEN Log(s1, "panZoom.step", 0, s.dt) ELSE s1
  IN  IF options.vibration THEN Log(s2, "vibrationManager.step", 0, s.dt) ELSE s2

\* As StepView, stepping the view of the screen that is current by now.
StepView_CurrentScreen(s, does) ==
  IF HasViewStep(s.screenProperty)
    THEN LET s1 == Log(s, "view.step", s.screenProperty, s.dt)
         IN  IF does = Raises THEN Throw(s1, s.screenProperty) ELSE s1
    ELSE s

\* screen.view.step( dt ) if the view has a step.  The view's step does
\* nothing to Sim (NoScreen), or throws (Raises).
StepView(s, does) ==
  IF HasViewStep(s.screen)
    THEN LET s1 == Log(s, "view.step", s.screen, s.dt)
         IN  IF does = Raises THEN Throw(s1, s.screen) ELSE s1
    ELSE s

\* display.updateDisplay() unless PhET-iO is not ready for display, then
\* frameEndedEmitter.emit().
StepEnd(s, readyForDisplay) ==
  LET s1 == IF readyForDisplay THEN Log(s, "updateDisplay", 0, 0) ELSE s
  IN  Log(s1, "frameEnded", 0, 0)

\* As StepSimulationAction, with the model stepped before the elapsed time is
\* advanced and the step timer notified.
StepSimulationAction_TimeAfterModel(s, dt, callbacks, readyForDisplay) ==
  LET s1 == StepModel(StepSelectScreen(StepBegin(s, dt)), callbacks.model)
      s2 == IF s1.error THEN s1 ELSE StepView(StepAncillary(StepTime(s1)), callbacks.view)
  IN  IF s2.error THEN s2 ELSE StepEnd(s2, readyForDisplay)

\* As StepSimulationAction, going on with the tick after a step has thrown.
StepSimulationAction_GoesOn(s, dt, callbacks, readyForDisplay) ==
  StepEnd(StepView(StepAncillary(StepModel(StepTime(StepSelectScreen(StepBegin(s, dt))),
                                           callbacks.model)),
                   callbacks.view),
          readyForDisplay)

\* As StepSimulationAction, ending the tick where the model's step has made
\* another screen the current one.
StepSimulationAction_StopsOnSwitch(s, dt, callbacks, readyForDisplay) ==
  LET s1 == StepModel(StepTime(StepSelectScreen(StepBegin(s, dt))), callbacks.model)
      s2 == IF s1.error THEN s1 ELSE StepView(StepAncillary(s1), callbacks.view)
  IN  IF s1.error \/ s1.screenProperty # s1.screen THEN s1
      ELSE IF s2.error THEN s2 ELSE StepEnd(s2, readyForDisplay)

\* The listener of stepSimulationAction.  callbacks is what the model's step
\* and the view's step of the screen do when called; an error one of them
\* throws ends the listener.
StepSimulationAction(s, dt, callbacks, readyForDisplay) ==
  LET s1 == StepModel(StepTime(StepSelectScreen(StepBegin(s, dt))), callbacks.model)
      s2 == IF s1.error THEN s1 ELSE StepView(StepAncillary(s1), callbacks.view)
  IN  IF s2.error THEN s2 ELSE StepEnd(s2, readyForDisplay)

\* stepSimulation( dt )
StepSimulation(s, dt, callbacks, readyForDisplay) ==
  StepSimulationAction(Log(s, "stepSimulation", 0, dt), dt, callbacks, readyForDisplay)

\* getDT( lastTime, currentTime )
GetDT(lastTime, currentTime) ==
  IF lastTime = TimeNotRecorded THEN 1 ELSE (currentTime - lastTime) \div MsPerSecond

\* As StepOneFrame, stepping the simulation whatever the sign of dt.
StepOneFrame_AnyDT(s, currentTime, callbacks, readyForDisplay) ==
  LET dt == GetDT(lastStepTime, currentTime)
  IN  StepSimulation(Log(s, "stepOneFrame", 0, dt), dt, callbacks, readyForDisplay)

\* stepOneFrame(), without the write of lastStepTime (see RunFrame).
StepOneFrame(s, currentTime, callbacks, readyForDisplay) ==
  LET dt == GetDT(lastStepTime, currentTime)
      s1 == Log(s, "stepOneFrame", 0, dt)
  IN  IF dt > 0 THEN StepSimulation(s1, dt, callbacks, readyForDisplay) ELSE s1

\* ------------------------------------------------------------------- popups
\* BarrierRectangle's listener of the length of modalNodeStack.
BarrierListener(stack) == Len(stack) > 0

\* topLayer.hasChild( popup ) and modalNodeStack.includes( popup )
HasChild(children, popup) == popup \in SeqToSet(children)

\* The sequence without its first occurrence of x (ObservableArray.remove,
\* Node.removeChild).
RemoveFirst(q, x) ==
  IF ~HasChild(q, x) THEN q
  ELSE LET i == CHOOSE j \in 1 .. Len(q) : q[j] = x /\ \A k \in 1 .. j - 1 : q[k] # x
       IN  SubSeq(q, 1, i - 1) \o SubSeq(q, i + 1, Len(q))

\* ------------------------------------------------------------------ states
\* The state finishInit leaves: the screens selected, the screenProperty
\* listener linked (and so run once), the window fitted, no frame stepped.
Init ==
  /\ options \in OptionSets
  /\ windowSize = InitialWindowSize
  /\ \E subset \in {<<>>} \cup { <<i>> : i \in AllSimScreens }, homeQP \in BOOLEAN :
       /\ simScreens = SelectedSimScreens(DeclaredScreens(NumDeclaredScreens), subset)
       /\ homeScreen = SelectHomeScreen(simScreens, homeQP)
       /\ screens = SelectScreensList(simScreens, homeScreen)
  /\ screenData = <<>>
  /\ topLayer = <<>>
  /\ modalNodeStack = <<>>
  /\ barrierVisible = BarrierListener(modalNodeStack)
  /\ activeProperty = TRUE
  /\ lastStepTime = TimeNotRecorded
  /\ lastAnimationFrameTime = TimeNotRecorded
  /\ frameRequested = TRUE
  /\ resizeEvents = 0
  /\ loopError = FALSE
  /\ \E initial \in {NoScreen} \cup SeqToSet(screens) :
       LET first == SelectInitialScreen(simScreens, homeScreen, initial)
           s0 == [ screenProperty |-> first,
                   viewVisible |-> [x \in SeqToSet(screens) |-> TRUE],
                   screenActive |-> [x \in SeqToSet(screens) |-> TRUE],
                   frameCounter |-> 0, elapsedTime |-> 0, resizePending |-> TRUE,
                   dimensionProperty |-> <<0, 0>>, scaleProperty |-> LayoutDen,
                   boundsProperty |-> <<>>, screenBoundsProperty |-> <<>>,
                   windowSize |-> windowSize, trace |-> <<>>, dt |-> 0,
                   screen |-> NoScreen, error |-> FALSE, isSettingPhetioState |-> FALSE,
                   assertions |-> TRUE ]
           s1 == ScreenListener(Log(s0, "finishInit", 0, 0), first)
           s2 == ResizeToWindow(s1)
       IN  /\ screenProperty = s2.screenProperty
           /\ viewVisible = s2.viewVisible
           /\ screenActive = s2.screenActive
           /\ frameCounter = s2.frameCounter
           /\ elapsedTime = s2.elapsedTime
           /\ resizePending = s2.resizePending
           /\ dimensionProperty = s2.dimensionProperty
           /\ scaleProperty = s2.scaleProperty
           /\ boundsProperty = s2.boundsProperty
           /\ screenBoundsProperty = s2.screenBoundsProperty
           /\ trace = s2.trace
           /\ replica = <<>>
  /\ workItem = 0
  /\ initialized = <<>>
  /\ isConstructionCompleteProperty = FALSE
  /\ isShowing = FALSE
  /\ launchCalled = FALSE
  /\ launchComplete = FALSE
  /\ launchSimulation = FALSE
  /\ readyToProceed = FALSE
  /\ callbackCalls = 0
  /\ locales = <<>>
  /\ localeProperty = NoLocale

\* What a callback run inside a tick may select: a screen, or nothing.
Selectable == SeqToSet(screens) \cup {NoScreen}
\* What the step callbacks of a screen do when they return, and when one of
\* them throws.
Callbacks == [model : Selectable, view : {NoScreen}]
RaisingCallbacks ==
  { [model |-> Raises, view |-> NoScreen], [model |-> NoScreen, view |-> Raises] }
\* phet.phetio.phetioEngine.isReadyForDisplay matters under PhET-iO only.
ReadyChoices == IF options.phetio THEN BOOLEAN ELSE {TRUE}
\* Date.now(): the host clock reads one of two instants a dt unit apart, in
\* any order (it may stall or step back).
ClockReadings == { 0, MsPerSecond }
\* The same, with an instant three dt units after the first.
LateClockReadings == { 0, MsPerSecond, 3 * MsPerSecond }

\* ----------------------------------------------------------------- actions
\* A direct call of stepSimulation( dt ) (public, phet-io).
StepCall(dt, callbacks, ready) ==
  /\ frameCounter < MaxFrames
  /\ Commit(StepSimulation(Log(Cur, "resizeEvents", resizeEvents, 0), dt, callbacks, ready))
  /\ resizeEvents' = 0
  /\ UNCHANGED << configVars, replica, loopError, popupVars, loopVars, activeProperty,
                  windowSize >>

StepSimulationCall ==
  /\ UNCHANGED sideVars
  /\ \E dt \in DtInputs, callbacks \in Callbacks, ready \in ReadyChoices :
       StepCall(dt, callbacks, ready)
\* The same, with a screen whose model step or view step throws.
StepSimulationRaising ==
  /\ UNCHANGED sideVars
  /\ \E dt \in DtInputs, callbacks \in RaisingCallbacks, ready \in ReadyChoices :
       StepCall(dt, callbacks, ready)

\* runAnimationLoop(), called back by requestAnimationFrame (the Sim is not
\* destroyed, so it requests the next frame first).  t is what Date.now()
\* reads, in stepOneFrame and again for the animation frame timer (the two
\* readings of one frame are taken to be the same millisecond).
\* As RunFrame, stepping an active sim in playback mode too.
RunFrame_IgnoresPlayback(t, callbacks, ready) ==
  LET stepping == activeProperty
      s0 == Log(Cur, "resizeEvents", resizeEvents, 0)
      s1 == Log(Log(s0, "runAnimationLoop", 0, 0), "requestAnimationFrame", 0, 0)
      s2 == IF stepping THEN StepOneFrame(s1, t, callbacks, ready) ELSE s1
      s3 == IF s2.error THEN s2
            ELSE Log(s2, "animationFrameTimer", 0, GetDT(lastAnimationFrameTime, t))
  IN  /\ frameRequested
      /\ frameCounter < MaxFrames
      /\ Commit(s3)
      /\ frameRequested' = TRUE
      /\ lastStepTime' = IF stepping THEN t ELSE lastStepTime
      /\ lastAnimationFrameTime' = IF s2.error THEN lastAnimationFrameTime ELSE t
      /\ resizeEvents' = IF s3.frameCounter # frameCounter THEN 0 ELSE resizeEvents
      /\ loopError' = (loopError \/ s2.error)
      /\ UNCHANGED << configVars, replica, popupVars, activeProperty, windowSize >>

\* As RunFrame, requesting the next frame after the step, so that an error
\* thrown in the step leaves none requested.
RunFrame_RequestsFrameLast(t, callbacks, ready) ==
  LET stepping == activeProperty /\ ~options.playbackMode
      s0 == Log(Cur, "resizeEvents", resizeEvents, 0)
      s1 == Log(Log(s0, "runAnimationLoop", 0, 0), "requestAnimationFrame", 0, 0)
      s2 == IF stepping THEN StepOneFrame(s1, t, callbacks, ready) ELSE s1
      s3 == IF s2.error THEN s2
            ELSE Log(s2, "animationFrameTimer", 0, GetDT(lastAnimationFrameTime, t))
  IN  /\ frameRequested
      /\ frameCounter < MaxFrames
      /\ Commit(s3)
      /\ frameRequested' = ~s2.error
      /\ lastStepTime' = IF stepping THEN t ELSE lastStepTime
      /\ lastAnimationFrameTime' = IF s2.error THEN lastAnimationFrameTime ELSE t
      /\ resizeEvents' = IF s3.frameCounter # frameCounter THEN 0 ELSE resizeEvents
      /\ loopError' = (loopError \/ s2.error)
      /\ UNCHANGED << configVars, replica, popupVars, activeProperty, windowSize >>

\* As RunFrameFrom, recording the time of the frame as the time of the last
\* step in every call.
RunFrameFrom_RecordsTime(s, t, callbacks, ready) ==
  LET stepping == activeProperty /\ ~options.playbackMode
      s0 == Log(s, "resizeEvents", resizeEvents, 0)
      s1 == Log(Log(s0, "runAnimationLoop", 0, 0), "requestAnimationFrame", 0, 0)
      s2 == IF stepping THEN StepOneFrame(s1, t, callbacks, ready) ELSE s1
      s3 == IF s2.error THEN s2
            ELSE Log(s2, "animationFrameTimer", 0, GetDT(lastAnimationFrameTime, t))
  IN  /\ frameRequested
      /\ frameCounter < MaxFrames
      /\ Commit(s3)
      /\ frameRequested' = TRUE
      /\ lastStepTime' = t
      /\ lastAnimationFrameTime' = IF s2.error THEN lastAnimationFrameTime ELSE t
      /\ resizeEvents' = IF s3.frameCounter # frameCounter THEN 0 ELSE resizeEvents
      /\ loopError' = (loopError \/ s2.error)
      /\ UNCHANGED << configVars, replica, popupVars, activeProperty, windowSize >>

\* One call of runAnimationLoop.  An error thrown in the tick ends
\* runAnimationLoop too.
RunFrameFrom(s, t, callbacks, ready) ==
  LET stepping == activeProperty /\ ~options.playbackMode
      s0 == Log(s, "resizeEvents", resizeEvents, 0)
      s1 == Log(Log(s0, "runAnimationLoop", 0, 0), "requestAnimationFrame", 0, 0)
      s2 == IF stepping THEN StepOneFrame(s1, t, callbacks, ready) ELSE s1
      s3 == IF s2.error THEN s2
            ELSE Log(s2, "animationFrameTimer", 0, GetDT(lastAnimationFrameTime, t))
  IN  /\ frameRequested
      /\ frameCounter < MaxFrames
      /\ Commit(s3)
      /\ frameRequested' = TRUE
      /\ lastStepTime' = IF stepping THEN t ELSE lastStepTime
      /\ lastAnimationFrameTime' = IF s2.error THEN lastAnimationFrameTime ELSE t
      /\ resizeEvents' = IF s3.frameCounter # frameCounter THEN 0 ELSE resizeEvents
      /\ loopError' = (loopError \/ s2.error)
      /\ UNCHANGED << configVars, replica, popupVars, activeProperty, windowSize >>

RunFrame(t, callbacks, ready) == RunFrameFrom(Cur, t, callbacks, ready)

\* A call of runAnimationLoop some frames later.
RunAnimationLoopLater ==
  /\ UNCHANGED sideVars
  /\ \E t \in LateClockReadings, callbacks \in Callbacks, ready \in ReadyChoices :
       RunFrame(t, callbacks, ready)

RunAnimationLoop ==
  /\ UNCHANGED sideVars
  /\ \E t \in ClockReadings, callbacks \in Callbacks, ready \in ReadyChoices :
       RunFrame(t, callbacks, ready)
\* The same, with a screen whose model step or view step throws.
RunAnimationLoopRaising ==
  /\ UNCHANGED sideVars
  /\ \E t \in ClockReadings, callbacks \in RaisingCallbacks, ready \in ReadyChoices :
       RunFrame(t, callbacks, ready)

\* selectScreens is called once, as the constructor of a Sim calls it, with
\* declared screens and query parameters that pass validation: the initial
\* screen, if given, is the home screen that is made or a selected screen.
SelectScreensCall ==
  /\ UNCHANGED sideVars
  /\ \E n \in 1 .. MaxDeclaredScreens, homeScreenQueryParameter \in BOOLEAN :
       \E screensQueryParameter \in ScreensQueryParameters(n) \cup {<<>>} :
         \E initialScreenIndex \in
              {NoScreen} \cup SeqToSet(SelectScreensList(
                SelectedSimScreens(DeclaredScreens(n), screensQueryParameter),
                SelectHomeScreen(SelectedSimScreens(DeclaredScreens(n), screensQueryParameter),
                                 homeScreenQueryParameter))) :
           /\ screenData = <<>>
           /\ screenData' = SelectScreens(DeclaredScreens(n), screensQueryParameter,
                                          homeScreenQueryParameter, initialScreenIndex)
           /\ UNCHANGED << options, simScreens, screens, homeScreen, simVars, popupVars,
                           loopVars, activeProperty, windowSize, resizeEvents, loopError,
                           replica >>

\* A screen button's listener: screenProperty.value = screen.
SelectScreen ==
  /\ UNCHANGED sideVars
  /\ \E newScreen \in SeqToSet(screens) :
       /\ Commit(SetScreenProperty(Log(Cur, "screenProperty.set", newScreen, 0), newScreen))
       /\ UNCHANGED << configVars, replica, loopError, popupVars, loopVars, activeProperty, windowSize, resizeEvents >>

\* PhET-iO sets the state of the sim, and with it screenProperty:
\* isSettingPhetioStateProperty is true while the listeners run.
SetStateScreen ==
  /\ UNCHANGED sideVars
  /\ \E newScreen \in SeqToSet(screens) :
       /\ options.phetio
       /\ Commit(SetScreenProperty(
                   Log(Log([Cur EXCEPT !.isSettingPhetioState = TRUE],
                           "isSettingPhetioStateProperty", 0, 1),
                       "screenProperty.set", newScreen, 0),
                   newScreen))
       /\ UNCHANGED << configVars, replica, loopError, popupVars, loopVars, activeProperty,
                       windowSize, resizeEvents >>

\* The window's resize event: the window has a size, resizeListener runs.
WindowResize ==
  /\ UNCHANGED sideVars
  /\ \E size \in WindowSizes :
       /\ windowSize' = size
       /\ Commit(ResizeListener(Cur, size))
       /\ resizeEvents' = IF resizeEvents = 0 THEN 1 ELSE 2
       /\ UNCHANGED << configVars, replica, loopError, popupVars, loopVars, activeProperty >>

\* A direct call of resize( width, height ) (joist-internal, phet-io).
ResizeCall ==
  /\ UNCHANGED sideVars
  /\ \E size \in WindowSizes :
       /\ Commit(Resize(Log(Cur, "resize", size[1], size[2]), size[1], size[2]))
       /\ UNCHANGED << configVars, replica, loopError, popupVars, loopVars, activeProperty, windowSize, resizeEvents >>

\* A direct call of resize( width, height ) with a width or height that is
\* not positive, in a build with assertions or in one without.
ResizeDegenerateCall ==
  /\ UNCHANGED sideVars
  /\ \E size \in DegenerateSizes, assertions \in BOOLEAN :
       /\ Commit(Resize(Log([Cur EXCEPT !.assertions = assertions], "resize", size[1], size[2]),
                        size[1], size[2]))
       /\ UNCHANGED << configVars, replica, loopError, popupVars, loopVars, activeProperty,
                       windowSize, resizeEvents >>

\* A direct call of resize( width, height ) during which the toolbar's layout
\* changes the toolbar's rightPositionProperty.
ResizeToolbarMoves ==
  /\ UNCHANGED sideVars
  /\ \E size \in WindowSizes :
       /\ options.toolbar
       /\ Commit(ResizeActionReentered(Log(Cur, "resize", size[1], size[2]),
                                       size[1], size[2]))
       /\ UNCHANGED << configVars, replica, loopError, popupVars, loopVars, activeProperty,
                       windowSize, resizeEvents >>

\* ------------------------------------------------------------------ start
\* As WorkItems, with the view of a screen initialized before its model.
WorkItems_ViewFirst(scr) ==
  [i \in 1 .. 2 * Len(scr) |->
     IF i % 2 = 1 THEN <<"initializeView", scr[(i + 1) \div 2]>>
     ELSE <<"initializeModel", scr[i \div 2]>>]

\* The work items of start(): for each screen in the order of screens, its
\* initializeModel and then its initializeView.
WorkItems(scr) ==
  [i \in 1 .. 2 * Len(scr) |->
     IF i % 2 = 1 THEN <<"initializeModel", scr[(i + 1) \div 2]>>
     ELSE <<"initializeView", scr[i \div 2]>>]

\* One setTimeout callback of runItem: the next work item runs.
RunItem ==
  LET item == WorkItems(screens)[workItem + 1]
  IN  /\ workItem < Len(WorkItems(screens))
      /\ workItem' = workItem + 1
      /\ initialized' = Append(initialized, item)
      /\ Commit(Log(Log(Cur, "runItem", 0, workItem), item[1], item[2], 0))
      /\ UNCHANGED << configVars, replica, loopError, popupVars, loopVars, activeProperty,
                      windowSize, resizeEvents, isConstructionCompleteProperty, isShowing,
                      launchVars, localeVars >>

\* The setTimeout callback after the last work item: finishInit,
\* isConstructionCompleteProperty.value = true and the first call of
\* runAnimationLoop.
FinishStart ==
  \E t \in ClockReadings, callbacks \in Callbacks, ready \in ReadyChoices :
    /\ workItem = Len(WorkItems(screens))
    /\ ~isConstructionCompleteProperty
    /\ isConstructionCompleteProperty' = TRUE
    /\ RunFrameFrom(Log(Log(Cur, "finishInit", 0, 0), "isConstructionCompleteProperty", 0, 1),
                    t, callbacks, ready)
    /\ UNCHANGED << workItem, initialized, isShowing, launchVars, localeVars >>

\* A later call of runAnimationLoop, by the frame the call before it requested.
RunAnimationLoopStarted ==
  /\ isConstructionCompleteProperty
  /\ UNCHANGED sideVars
  /\ \E t \in ClockReadings, callbacks \in Callbacks, ready \in ReadyChoices :
       RunFrame(t, callbacks, ready)

\* activeProperty is set (the sim is paused or resumed).
SetSimActive ==
  /\ UNCHANGED sideVars
  /\ /\ activeProperty' = ~activeProperty
     /\ Commit(Log(Cur, "activeProperty", 0, B2N(~activeProperty)))
     /\ UNCHANGED << configVars, replica, loopError, popupVars, loopVars, windowSize, resizeEvents >>

\* As ShowPopup, without the assertion that the popup is not shown yet.
ShowPopup_NoAssert(popup, isModal) ==
  LET s1 == Log(Cur, "showPopup", popup, B2N(isModal))
      s2 == IF isModal THEN Log(s1, "rootNode.interruptSubtreeInput", popup, 0) ELSE s1
      s3 == IF PopupHasLayout(popup)
              THEN Log(s2, "popup.layout", popup, screenBoundsProperty) ELSE s2
      stack == IF isModal THEN Append(modalNodeStack, popup) ELSE modalNodeStack
  IN  /\ Len(stack) <= MaxStack
      /\ modalNodeStack' = stack
      /\ barrierVisible' = IF isModal THEN BarrierListener(stack) ELSE barrierVisible
      /\ topLayer' = Append(topLayer, popup)
      /\ Commit(s3)
      /\ UNCHANGED << configVars, replica, loopError, loopVars, activeProperty, windowSize,
                      resizeEvents >>

\* showPopup( popup, isModal ), assertions enabled: the call fails at the
\* assertion 'popup already shown' if the popup is a child of topLayer.
ShowPopup(popup, isModal) ==
  LET s1 == Log(Cur, "showPopup", popup, B2N(isModal))
      s2 == IF isModal THEN Log(s1, "rootNode.interruptSubtreeInput", popup, 0) ELSE s1
      s3 == IF PopupHasLayout(popup)
              THEN Log(s2, "popup.layout", popup, screenBoundsProperty) ELSE s2
      stack == IF isModal THEN Append(modalNodeStack, popup) ELSE modalNodeStack
  IN  IF HasChild(topLayer, popup)
        THEN /\ Commit(Log(s1, "assert", popup, 0))
             /\ UNCHANGED << configVars, replica, loopError, popupVars, loopVars,
                             activeProperty, windowSize, resizeEvents >>
        ELSE /\ Len(stack) <= MaxStack
             /\ modalNodeStack' = stack
             /\ barrierVisible' = IF isModal THEN BarrierListener(stack) ELSE barrierVisible
             /\ topLayer' = Append(topLayer, popup)
             /\ Commit(s3)
             /\ UNCHANGED << configVars, replica, loopError, loopVars, activeProperty,
                             windowSize, resizeEvents >>

\* As HidePopup, hiding the barrier whenever a modal popup is hidden.
HidePopup_BarrierOff(popup, isModal) ==
  LET stack == IF isModal THEN RemoveFirst(modalNodeStack, popup) ELSE modalNodeStack
  IN  /\ HasChild(modalNodeStack, popup)
      /\ HasChild(topLayer, popup)
      /\ modalNodeStack' = stack
      /\ barrierVisible' = IF isModal THEN FALSE ELSE barrierVisible
      /\ topLayer' = RemoveFirst(topLayer, popup)
      /\ Commit(Log(Cur, "hidePopup", popup, B2N(isModal)))
      /\ UNCHANGED << configVars, replica, loopError, loopVars, activeProperty, windowSize, resizeEvents >>

\* As HidePopup, without its two assertions.
HidePopup_NoAssert(popup, isModal) ==
  LET stack == IF isModal THEN RemoveFirst(modalNodeStack, popup) ELSE modalNodeStack
  IN  /\ modalNodeStack' = stack
      /\ barrierVisible' = IF isModal THEN BarrierListener(stack) ELSE barrierVisible
      /\ topLayer' = RemoveFirst(topLayer, popup)
      /\ Commit(Log(Cur, "hidePopup", popup, B2N(isModal)))
      /\ UNCHANGED << configVars, replica, loopError, loopVars, activeProperty, windowSize,
                      resizeEvents >>

\* hidePopup( popup, isModal ), assertions enabled: the call fails at its
\* first assertion if the popup is not in modalNodeStack, and at its second,
\* 'popup was not shown', if the popup is not a child of topLayer.
HidePopup(popup, isModal) ==
  LET s1 == Log(Cur, "hidePopup", popup, B2N(isModal))
      stack == IF isModal THEN RemoveFirst(modalNodeStack, popup) ELSE modalNodeStack
  IN  IF ~HasChild(modalNodeStack, popup)
        THEN /\ Commit(Log(s1, "assert", popup, 1))
             /\ UNCHANGED << configVars, replica, loopError, popupVars, loopVars,
                             activeProperty, windowSize, resizeEvents >>
      ELSE IF ~HasChild(topLayer, popup)
        THEN /\ Commit(Log(s1, "assert", popup, 2))
             /\ UNCHANGED << configVars, replica, loopError, popupVars, loopVars,
                             activeProperty, windowSize, resizeEvents >>
        ELSE /\ modalNodeStack' = stack
             /\ barrierVisible' = IF isModal THEN BarrierListener(stack) ELSE barrierVisible
             /\ topLayer' = RemoveFirst(topLayer, popup)
             /\ Commit(s1)
             /\ UNCHANGED << configVars, replica, loopError, loopVars, activeProperty,
                             windowSize, resizeEvents >>

\* A second run is started from the state the first run is in.
StartReplica ==
  /\ UNCHANGED sideVars
  /\ /\ replica = <<>>
     /\ replica' = [Cur EXCEPT !.trace = trace]
     /\ UNCHANGED << configVars, loopError, simVars, popupVars, loopVars, activeProperty,
                     windowSize, resizeEvents >>

\* The same stepSimulationAction.execute( dt ) in both runs; the callbacks
\* it runs do the same in both.
ReplayStep ==
  /\ UNCHANGED sideVars
  /\ \E dt \in DtInputs, callbacks \in Callbacks, ready \in ReadyChoices :
       /\ replica # <<>>
       /\ frameCounter < MaxFrames
       /\ Commit(StepSimulation(Log(Cur, "resizeEvents", resizeEvents, 0), dt, callbacks, ready))
       /\ replica' = StepSimulation(Log([replica EXCEPT !.trace = <<>>], "resizeEvents", 0, 0),
                                    dt, callbacks, ready)
       /\ resizeEvents' = 0
       /\ UNCHANGED << configVars, loopError, popupVars, loopVars, activeProperty, windowSize >>

\* The same resizeAction.execute( width, height ) in both runs.
ReplayResize ==
  /\ UNCHANGED sideVars
  /\ \E size \in WindowSizes :
       /\ replica # <<>>
       /\ Commit(Resize(Log(Cur, "resize", size[1], size[2]), size[1], size[2]))
       /\ replica' = Resize(Log([replica EXCEPT !.trace = <<>>], "resize", size[1], size[2]),
                            size[1], size[2])
       /\ UNCHANGED << configVars, loopError, popupVars, loopVars, activeProperty, windowSize, resizeEvents >>

\* The window's resize event in the second run.
ReplicaWindowResize ==
  /\ UNCHANGED sideVars
  /\ \E size \in WindowSizes :
       /\ replica # <<>>
       /\ replica' = ResizeListener([replica EXCEPT !.trace = <<>>], size)
       /\ UNCHANGED << configVars, loopError, simVars, popupVars, loopVars, activeProperty, windowSize,
                       resizeEvents >>

ShowPopupCall ==
  /\ UNCHANGED sideVars
  /\ \E popup \in Popups, isModal \in BOOLEAN : ShowPopup(popup, isModal)
HidePopupCall ==
  /\ UNCHANGED sideVars
  /\ \E popup \in Popups, isModal \in BOOLEAN : HidePopup(popup, isModal)
\* The calls of showPopup and hidePopup that pass their assertions.
ShowPopupPassing ==
  /\ UNCHANGED sideVars
  /\ \E popup \in Popups, isModal \in BOOLEAN :
       /\ ~HasChild(topLayer, popup)
       /\ ShowPopup(popup, isModal)
HidePopupPassing ==
  /\ UNCHANGED sideVars
  /\ \E popup \in Popups, isModal \in BOOLEAN :
       /\ HasChild(modalNodeStack, popup)
       /\ HasChild(topLayer, popup)
       /\ HidePopup(popup, isModal)

\* ------------------------------------------------------------ simLauncher
\* The fields of simLauncher and of window.phet.joist that launch() and
\* launchSimulation() write, with the events of the operation under way.
CurLaunch ==
  [ launchCalled |-> launchCalled, launchComplete |-> launchComplete,
    launchSimulation |-> launchSimulation, readyToProceed |-> readyToProceed,
    callbackCalls |-> callbackCalls, trace |-> <<>> ]
CommitLaunch(l) ==
  /\ launchCalled' = l.launchCalled
  /\ launchComplete' = l.launchComplete
  /\ launchSimulation' = l.launchSimulation
  /\ readyToProceed' = l.readyToProceed
  /\ callbackCalls' = l.callbackCalls
  /\ trace' = l.trace
  /\ UNCHANGED << configVars, screenProperty, viewVisible, screenActive, frameCounter,
                  elapsedTime, resizePending, dimensionProperty, scaleProperty, boundsProperty,
                  screenBoundsProperty, replica, loopError, popupVars, loopVars,
                  activeProperty, windowSize, resizeEvents, startVars, isShowing, localeVars >>

\* window.phet.joist.launchSimulation(), assertions enabled: it fails if the
\* launch is complete, and else marks it complete and calls the callback.
LaunchSimulation(l) ==
  LET l1 == Log(l, "launchSimulation", 0, 0)
  IN  IF l.launchComplete THEN Log(l1, "assert", 0, 1)
      ELSE Log([l1 EXCEPT !.launchComplete = TRUE, !.callbackCalls = @ + 1], "callback", 0, 0)

\* As ReadyToProceed, calling launchSimulation in every mode.
ReadyToProceed_AlwaysLaunches(l, phetioStandalone) ==
  LaunchSimulation(Log([l EXCEPT !.launchSimulation = TRUE, !.readyToProceed = FALSE],
                       "readyToProceed", 0, B2N(phetioStandalone)))

\* The callback launch() gives to asyncLoader.readyToProceed: it defines
\* launchSimulation and calls it, unless PhET-iO (not standalone) or the
\* playback directs the launch.
ReadyToProceed(l, phetioStandalone) ==
  LET l1 == Log([l EXCEPT !.launchSimulation = TRUE, !.readyToProceed = FALSE],
                "readyToProceed", 0, B2N(phetioStandalone))
  IN  IF (options.phetio /\ ~phetioStandalone) \/ options.playbackMode THEN l1
      ELSE LaunchSimulation(l1)

\* simLauncher.launch( callback ), assertions enabled: it fails if launch was
\* called before; asyncLoader calls the callback it is given at once or
\* later.
Launch ==
  \E atOnce \in BOOLEAN, phetioStandalone \in BOOLEAN :
    LET l0 == Log(CurLaunch, "launch", 0, 0)
        l1 == IF atOnce THEN ReadyToProceed(l0, phetioStandalone)
              ELSE [l0 EXCEPT !.readyToProceed = TRUE]
    IN  IF launchCalled THEN CommitLaunch(Log(l0, "assert", 0, 0))
        ELSE CommitLaunch([l1 EXCEPT !.launchCalled = TRUE])

\* asyncLoader calls the callback of launch() it has kept.
AsyncLoaderProceeds ==
  \E phetioStandalone \in BOOLEAN :
    /\ readyToProceed
    /\ CommitLaunch(ReadyToProceed(CurLaunch, phetioStandalone))

\* window.phet.joist.launchSimulation() is called from outside (by PhET-iO,
\* by the playback), which throws a TypeError while it is not defined.
LaunchSimulationCall ==
  /\ callbackCalls < MaxCallbackCalls
  /\ IF launchSimulation
       THEN CommitLaunch(LaunchSimulation(Log(CurLaunch, "launchSimulationCall", 0, 0)))
       ELSE CommitLaunch(Log(Log(CurLaunch, "launchSimulationCall", 0, 0), "throw", 0, 0))

NextLaunch ==
  \/ Launch
  \/ AsyncLoaderProceeds
  \/ LaunchSimulationCall

\* --------------------------------------------------------- localeProperty
\* A locale is <<language, region>>, the region "" where the locale has
\* none: <<"ar", "SA">> is 'ar_SA'.
FALLBACK_LOCALE == <<"en", "">>
\* The locales of localeInfoModule that matter here.
LocaleInfo == { <<"en", "">>, <<"ar", "">>, <<"ar", "SA">>, <<"fr", "">> }
\* phet.chipper.locale as the page may give it; NoLocale where it is not a
\* string.
ChipperLocales ==
  { NoLocale, <<"en", "">>, <<"fr", "">>, <<"ar", "SA">>, <<"ar", "QP">>, <<"zx", "ZX">> }
\* Object.keys( phet.chipper.strings ).sort() of a sim with English strings
\* only, and of two translated ones.
StringLocales ==
  { << <<"en", "">> >>,
    << <<"ar", "">>, <<"en", "">> >>,
    << <<"ar", "SA">>, <<"en", "">>, <<"fr", "">> >> }

\* locale.slice( 0, 2 ): the language without the region.
PartialLocale(locale) == IF locale = NoLocale THEN NoLocale ELSE <<locale[1], "">>
IsLocaleValid(locale) == locale # NoLocale /\ locale \in LocaleInfo

\* validInitialLocale: the "most" valid of the locale, its language and the
\* fallback locale.
ValidInitialLocale(locale) ==
  IF IsLocaleValid(locale) THEN locale
  ELSE IF IsLocaleValid(PartialLocale(locale)) THEN PartialLocale(locale)
  ELSE FALLBACK_LOCALE

\* locales.indexOf( value ), from 0, -1 where value is not in locales.
IndexOf(list, value) ==
  IF \E i \in 1 .. Len(list) : list[i] = value
    THEN (CHOOSE i \in 1 .. Len(list) : list[i] = value) - 1
    ELSE -1

\* localeProperty.ts is loaded: locales and localeProperty are made.
LoadLocaleProperty ==
  \E locale \in ChipperLocales, strings \in StringLocales :
    /\ localeProperty = NoLocale
    /\ locales' = strings
    /\ localeProperty' = ValidInitialLocale(locale)
    /\ Commit(Log(Cur, "localeProperty", 0, ValidInitialLocale(locale)))
    /\ UNCHANGED << configVars, replica, loopError, popupVars, loopVars, activeProperty,
                    windowSize, resizeEvents, startVars, isShowing, launchVars >>

\* LocaleProperty.unguardedSet( value ), assertions enabled: a value that is
\* not in locales fails the assertion 'Unsupported locale' and is not set.
UnguardedSet(value) ==
  /\ localeProperty # NoLocale
  /\ localeProperty' = IF HasChild(locales, value) THEN value ELSE localeProperty
  /\ Commit(IF HasChild(locales, value) THEN Log(Cur, "localeProperty.set", 0, value)
            ELSE Log(Log(Cur, "localeProperty.set", 0, value), "assert", 0, value))
  /\ UNCHANGED << configVars, replica, loopError, popupVars, loopVars, activeProperty,
                  windowSize, resizeEvents, startVars, isShowing, launchVars, locales >>

\* localeProperty.value = value, by any client.
SetLocale == \E value \in ChipperLocales \ {NoLocale} : UnguardedSet(value)

\* The keyboard locale switcher: Ctrl+I and Ctrl+U set the locale after and
\* the locale before the present one in locales.
BumpLocale ==
  \E delta \in {1, -1} :
    LET index == IndexOf(locales, localeProperty)
        nextIndex == (index + delta + Len(locales)) % Len(locales)
    IN  /\ localeProperty # NoLocale
        /\ UnguardedSet(locales[nextIndex + 1])

NextLocale ==
  \/ LoadLocaleProperty
  \/ SetLocale
  \/ BumpLocale

\* ------------------------------------------------------------- PhET menu
\* The popup that is the PhetMenu.
PhetMenu == 1

\* As PhetMenuHide, without the test of isShowing.
PhetMenuHide_Unguarded ==
  /\ isShowing' = FALSE
  /\ HidePopup(PhetMenu, TRUE)
  /\ UNCHANGED << startVars, launchVars, localeVars >>

\* PhetMenu.show(): showPopup( this, true ) unless isShowing; isShowing is
\* set after showPopup has returned.
PhetMenuShow ==
  IF ~isShowing
    THEN /\ ShowPopup(PhetMenu, TRUE)
         /\ isShowing' = ~HasChild(topLayer, PhetMenu)
         /\ UNCHANGED << startVars, launchVars, localeVars >>
    ELSE /\ Commit(Log(Cur, "PhetMenu.show", PhetMenu, 0))
         /\ UNCHANGED << configVars, replica, loopError, popupVars, loopVars, activeProperty,
                         windowSize, resizeEvents, sideVars >>

\* PhetMenu.hide(): if isShowing, isShowing is cleared and then
\* hidePopup( this, true ) is called.
PhetMenuHide ==
  IF isShowing
    THEN /\ isShowing' = FALSE
         /\ HidePopup(PhetMenu, TRUE)
         /\ UNCHANGED << startVars, launchVars, localeVars >>
    ELSE /\ Commit(Log(Cur, "PhetMenu.hide", PhetMenu, 0))
         /\ UNCHANGED << configVars, replica, loopError, popupVars, loopVars, activeProperty,
                         windowSize, resizeEvents, sideVars >>

\* The menu's listener of Display.focusProperty: the menu is hidden when the
\* focus goes to something outside of it, and left alone when the focus is
\* null or in the menu.
FocusListener ==
  \E focus \in {"null", "inside", "outside"} :
    IF focus = "outside" THEN PhetMenuHide
    ELSE /\ Commit(Log(Cur, "focusListener", PhetMenu, 0))
         /\ UNCHANGED << configVars, replica, loopError, popupVars, loopVars, activeProperty,
                         windowSize, resizeEvents, sideVars >>

\* showPopup and hidePopup of the popups other than the menu.
ShowOtherPopup ==
  /\ UNCHANGED sideVars
  /\ \E popup \in Popups \ {PhetMenu}, isModal \in BOOLEAN : ShowPopup(popup, isModal)
HideOtherPopup ==
  /\ UNCHANGED sideVars
  /\ \E popup \in Popups \ {PhetMenu}, isModal \in BOOLEAN : HidePopup(popup, isModal)

NextMenu ==
  \/ PhetMenuShow
  \/ PhetMenuHide
  \/ FocusListener
  \/ ShowOtherPopup
  \/ HideOtherPopup
NextSim ==
  \/ StepSimulationCall
  \/ RunAnimationLoop
  \/ SelectScreen
  \/ WindowResize
NextPopup ==
  \/ ShowPopupCall
  \/ HidePopupCall
NextLayout ==
  \/ ResizeCall
  \/ ShowPopupPassing
  \/ HidePopupPassing
NextReplay ==
  \/ StartReplica
  \/ ReplayStep
  \/ ReplayResize
  \/ ReplicaWindowResize
NextLoop ==
  \/ RunAnimationLoop
  \/ SetSimActive
  \/ StepSimulationCall
NextSelect ==
  \/ SelectScreensCall
  \/ SelectScreen
NextResize ==
  \/ ResizeCall
  \/ ResizeDegenerateCall
  \/ ResizeToolbarMoves
NextSwitch ==
  \/ SelectScreen
  \/ SetStateScreen
  \/ StepSimulationCall
NextError ==
  \/ RunAnimationLoop
  \/ RunAnimationLoopRaising
  \/ StepSimulationCall
  \/ StepSimulationRaising
NextPause ==
  \/ RunAnimationLoopLater
  \/ SetSimActive
NextStart ==
  \/ RunItem
  \/ FinishStart
  \/ RunAnimationLoopStarted
Next ==
  NextSim \/ NextPopup \/ NextLoop \/ NextLayout \/ NextReplay \/ NextError \/ NextSwitch
    \/ NextResize \/ NextSelect \/ NextStart \/ NextMenu \/ NextLaunch \/ NextLocale
    \/ NextPause

\* The frame scheduler, the resize coordinator and the screen switch.
SpecSim == Init /\ [][NextSim]_vars
\* The popup stack.
SpecPopup == Init /\ [][NextPopup]_vars
\* Direct resizes of a sim that shows popups.
SpecLayout == Init /\ [][NextLayout]_vars
\* Two runs given the same resizeAction and stepSimulationAction calls.
SpecReplay == Init /\ [][NextReplay]_vars
\* Ticks of screens whose step callbacks may throw.
SpecError == Init /\ [][NextError]_vars
\* The animation loop of a sim that is paused and resumed, and its clock.
SpecLoop == Init /\ [][NextLoop]_vars
\* The selection of the screens of a run.
SpecSelect == Init /\ [][NextSelect]_vars
\* Direct resizes, those with a width or height that is not positive included.
SpecResize == Init /\ [][NextResize]_vars
\* Screen changes, by the screen buttons and by the model's step in a tick.
SpecSwitch == Init /\ [][NextSwitch]_vars
\* start(): the screens are initialized, then the sim is shown.
SpecStart == Init /\ [][NextStart]_vars
\* The PhET menu among other popups.
SpecMenu == Init /\ [][NextMenu]_vars
\* The launch of the sim.
SpecLaunch == Init /\ [][NextLaunch]_vars
\* The locale of the sim.
SpecLocale == Init /\ [][NextLocale]_vars
\* The animation loop of a sim that stays paused for several frames.
SpecPause == Init /\ [][NextPause]_vars
Spec == Init /\ [][Next]_vars

\* ================================================================== claims
\* The entries of the trace with the given name.
Events(what) == { i \in 1 .. Len(trace) : trace[i][1] = what }
Happened(what) == Events(what) # {}
\* The last operation ran stepSimulation.
TickRan == Happened("stepSimulation")
\* The dt stepSimulation was called with, the screen the tick selected and
\* the dt it stepped with.
TickRawDT == trace[CHOOSE i \in Events("stepSimulation") : TRUE][3]
TickScreen == trace[CHOOSE i \in Events("screen") : TRUE][2]
TickDT == trace[CHOOSE i \in Events("stepTimer") : TRUE][3]

\* The place of a phase of the tick in the order of the specification, 0 for
\* what is no phase of its own.
PhaseRank(what) ==
  CASE what = "frameStarted" -> 1
    [] what = "frameCounter" -> 2
    [] what = "speed" -> 3
    [] what = "resizeToWindow" -> 4
    [] what = "clamp" -> 5
    [] what = "elapsedTime" -> 6
    [] what = "stepTimer" -> 7
    [] what = "model.step" -> 8
    [] what = "TWEEN.update" -> 9
    [] what = "panZoom.step" -> 10
    [] what = "vibrationManager.step" -> 11
    [] what = "view.step" -> 12
    [] what = "updateDisplay" -> 13
    [] what = "frameEnded" -> 14
    [] OTHER -> 0
Phases == SelectSeq(trace, LAMBDA e : PhaseRank(e[1]) > 0)

\* C1: in a stepSimulation that ran to completion the phases occur in the
\* order frame started, frame counter, speed multiplier, pending resize,
\* clamp to maxDT, elapsed time, step timer, model step, TWEEN / pan-zoom /
\* vibration steps, view step, display update, frame ended, each at most
\* once, and the phases no condition guards occur.
C1_PhaseOrder ==
  (TickRan /\ Happened("frameEnded")) =>
    /\ \A i \in 1 .. Len(Phases) - 1 : PhaseRank(Phases[i][1]) < PhaseRank(Phases[i + 1][1])
    /\ \A what \in {"frameStarted", "frameCounter", "speed", "elapsedTime", "stepTimer"} :
         Happened(what)
C1_Witness ==
  /\ TickRan
  /\ \A what \in {"resizeToWindow", "clamp", "model.step", "panZoom.step",
                  "vibrationManager.step", "view.step", "updateDisplay", "frameEnded"} :
       Happened(what)

\* C2: the barrier rectangle is visible exactly when modalNodeStack is not
\* empty, after any sequence of showPopup / hidePopup calls that pass their
\* assertions; with two modal popups shown it stays visible when one is hidden.
C2_BarrierIffStack == barrierVisible <=> Len(modalNodeStack) > 0
C2_Witness ==
  /\ trace[1] = <<"hidePopup", 2, 1>>
  /\ modalNodeStack = <<1>>
  /\ topLayer = <<1>>
  /\ barrierVisible

\* C3: when the current screen changes from X to Y, the input of X's view is
\* interrupted before Y's view is made visible.
C3_InterruptBeforeVisible ==
  [][screenProperty' # screenProperty =>
       \E j \in 1 .. Len(trace') :
         /\ trace'[j] = <<"setVisible", screenProperty', 1>>
         /\ \A k \in 1 .. j - 1 : trace'[k] # <<"setVisible", screenProperty', 1>>
         /\ \E i \in 1 .. j - 1 : trace'[i] = <<"interruptSubtreeInput", screenProperty, 0>>]_vars
C3_Witness ==
  /\ Happened("interruptSubtreeInput")
  /\ \E j \in Events("setVisible") : trace[j] = <<"setVisible", screenProperty, 1>>
  /\ trace[1][1] = "screenProperty.set"

\* C4: after initialization and after every change of the current screen,
\* the current screen is visible and active and every other screen is
\* invisible and inactive; with the home screen current no sim screen is active.
C4_OnlyCurrentVisibleActive ==
  /\ \A x \in SeqToSet(screens) :
       /\ viewVisible[x] = (x = screenProperty)
       /\ screenActive[x] = (x = screenProperty)
  /\ screenProperty = HomeScreen => \A x \in SeqToSet(simScreens) : ~screenActive[x]
C4_Witness ==
  /\ screenProperty = HomeScreen
  /\ Happened("interruptSubtreeInput")
  /\ Len(simScreens) >= 2

\* C6: no popup occurs twice in modalNodeStack, after any sequence of
\* showPopup / hidePopup calls that pass their assertions, whatever their
\* isModal flags.
C6_NoDuplicateInStack ==
  \A i, j \in 1 .. Len(modalNodeStack) : modalNodeStack[i] = modalNodeStack[j] => i = j

\* The dt a call steps with: scaled by the speed, capped by the maxDT of the
\* screen if it declares one.
EffectiveDT(dt, screen) ==
  IF ScreenMaxDT(screen) # 0 THEN Min(dt * options.speed, ScreenMaxDT(screen))
  ELSE dt * options.speed

C9_NeverDecrease ==
  [][frameCounter' >= frameCounter /\ elapsedTime' >= elapsedTime]_vars

TickResizeEvents == trace[CHOOSE i \in Events("resizeEvents") : TRUE][2]

ResizeStart(i) ==
  CHOOSE r \in Events("resizeAction") :
    r <= i /\ \A q \in Events("resizeAction") : q <= i => q <= r
GeometryWrites ==
  Events("scaleProperty") \cup Events("boundsProperty") \cup Events("screenBoundsProperty")
Layouts == Events("view.layout") \cup Events("popup.layout")

ContentBounds(width, height) ==
  << IF options.toolbar THEN options.toolbarWidth * LayoutDen ELSE 0,
     0,
     width * LayoutDen,
     height * LayoutDen - Min(width * LayoutHeight, height * LayoutWidth) * NavBarHeight >>

Observable(s) ==
  [ dimension |-> s.dimensionProperty, scale |-> s.scaleProperty,
    bounds |-> s.boundsProperty, screenBounds |-> s.screenBoundsProperty,
    frameCounter |-> s.frameCounter, elapsedTime |-> s.elapsedTime ]
StepsOf(s) == SelectSeq(s.trace, LAMBDA ev : ev[1] \in {"model.step", "view.step"})
IsTick(s) == \E i \in 1 .. Len(s.trace) : s.trace[i][1] = "stepSimulation"
FirstRun == [Cur EXCEPT !.trace = trace]
SameObservableState ==
  /\ Observable(FirstRun) = Observable(replica)
  /\ (IsTick(FirstRun) /\ IsTick(replica)) => StepsOf(FirstRun) = StepsOf(replica)

\* C14 as stated: two runs from the same initial state that are given the
\* same resizeAction.execute and stepSimulationAction.execute calls have the
\* same observable state, whatever the sizes of their host windows.
C14_SameCallsSameState == replica # <<>> => SameObservableState
\* C14 as amended: in playback mode, two runs from the same initial state
\* that are given the same calls have the same observable state, whatever
\* the sizes of their host windows.
C14_SameCallsSameStateInPlayback ==
  (replica # <<>> /\ options.playbackMode) => SameObservableState
C14_Witness ==
  /\ replica # <<>>
  /\ options.playbackMode
  /\ frameCounter = 2
  /\ windowSize # replica.windowSize
  /\ dimensionProperty # <<replica.windowSize[1], replica.windowSize[2]>>
  /\ Happened("model.step")
  /\ replica.frameCounter = 2
\* C15 as stated: in playback mode a window resize event is recorded as
\* pending and not applied at once, and the next stepSimulation tick applies it.
C15_PendingInPlayback ==
  options.playbackMode =>
    /\ Happened("resizeListener") => (resizePending /\ ~Happened("resizeAction"))
    /\ (TickRan /\ TickResizeEvents > 0) => Happened("resizeAction")
\* C15 as amended: in playback mode a window resize event is neither
\* applied at once nor recorded as pending, and no stepSimulation tick,
\* whatever the resize events before it, executes a resize.
C15_IgnoredInPlayback ==
  options.playbackMode =>
    /\ ~resizePending
    /\ Happened("resizeListener") => ~Happened("resizeAction")
    /\ TickRan => ~Happened("resizeAction")
C15_Witness ==
  /\ options.playbackMode
  /\ TickRan
  /\ TickResizeEvents = 2
  /\ dimensionProperty # windowSize
\* C16: in playback mode a call of runAnimationLoop leaves the frame counter
\* and the elapsed time alone, steps no model and no view, and requests the
\* next frame; the frame counter and the elapsed time change only in direct
\* stepSimulation calls.
C16_LoopIdleInPlayback ==
  [][options.playbackMode =>
       /\ Happened("runAnimationLoop")' =>
            /\ frameCounter' = frameCounter
            /\ elapsedTime' = elapsedTime
            /\ ~TickRan'
            /\ ~Happened("model.step")' /\ ~Happened("view.step")'
            /\ Happened("requestAnimationFrame")'
            /\ frameRequested'
       /\ (frameCounter' # frameCounter \/ elapsedTime' # elapsedTime) =>
            (TickRan' /\ ~Happened("runAnimationLoop")')]_vars
C16_Witness ==
  /\ options.playbackMode
  /\ Happened("runAnimationLoop")
  /\ frameCounter = 1
  /\ elapsedTime > 0
  /\ frameRequested
  /\ lastAnimationFrameTime = MsPerSecond

\* C17: when the model step or the view step of the screen throws, nothing
\* of the tick or of its callers runs after it (no later step, no display
\* update, no frame ended), the step is not called again and no other
\* screen is stepped.
C17_ErrorEndsTick ==
  Happened("throw") =>
    /\ Events("throw") = {Len(trace)}
    /\ trace[Len(trace) - 1][1] \in {"model.step", "view.step"}
    /\ ~Happened("updateDisplay") /\ ~Happened("frameEnded")
    /\ Cardinality(Events("model.step")) <= 1
    /\ Cardinality(Events("view.step")) <= 1
    /\ \A i \in Events("model.step") \cup Events("view.step") : trace[i][2] = TickScreen
    /\ trace[Len(trace) - 1][1] = "model.step" => ~Happened("view.step")
C17_Witness ==
  /\ Happened("throw")
  /\ Happened("runAnimationLoop")
  /\ Happened("model.step")
  /\ Happened("view.step")
  /\ frameCounter = 2

\* C18 as stated: once a tick of the animation loop has thrown, no later
\* call of runAnimationLoop steps the simulation.
C18_LoopStopsAfterError ==
  ~(loopError /\ Happened("runAnimationLoop") /\ TickRan /\ ~Happened("throw"))
\* C18 as amended: when a tick of the animation loop throws, the next frame
\* has been requested before, and a later call of runAnimationLoop steps the
\* simulation as usual, whenever its dt is positive.
C18_LoopGoesOnAfterError ==
  loopError =>
    /\ frameRequested
    /\ \A i \in Events("throw"), j \in Events("runAnimationLoop") :
         \E k \in Events("requestAnimationFrame") : j < k /\ k < i
    /\ \A i \in Events("stepOneFrame") : trace[i][3] > 0 <=> TickRan
C18_Witness ==
  /\ loopError
  /\ Happened("runAnimationLoop")
  /\ TickRan
  /\ ~Happened("throw")
  /\ Happened("frameEnded")
  /\ frameCounter = 2

\* C19: a call of runAnimationLoop that finds the clock not later than at
\* the last frame (dt <= 0) steps nothing: no stepSimulation, no model or
\* view step, frame counter and elapsed time unchanged, no error, and the
\* next frame is requested.
C19_NonPositiveDTSkipsTick ==
  [][(/\ Happened("stepOneFrame")'
      /\ lastStepTime # TimeNotRecorded
      /\ lastStepTime' <= lastStepTime) =>
       /\ frameCounter' = frameCounter
       /\ elapsedTime' = elapsedTime
       /\ ~TickRan'
       /\ ~Happened("model.step")' /\ ~Happened("view.step")'
       /\ ~Happened("throw")'
       /\ Happened("requestAnimationFrame")'
       /\ frameRequested']_vars
C19_Witness ==
  /\ \E i \in Events("stepOneFrame") : trace[i][3] < 0
  /\ ~TickRan
  /\ frameCounter = 1
  /\ lastStepTime = 0
  /\ frameRequested
AssertionFailed == Len(trace) > 0 /\ trace[Len(trace)][1] = "assert"

C22_NonModalShowThenHide ==
  [][\A p \in Popups :
       (/\ HasChild(topLayer, p)
        /\ ~HasChild(modalNodeStack, p)
        /\ trace'[1] = <<"hidePopup", p, 0>>) =>
         /\ ~AssertionFailed'
         /\ topLayer' = RemoveFirst(topLayer, p)
         /\ modalNodeStack' = modalNodeStack]_vars
\* The trace from entry i on changes the active flag of a screen only while
\* the view of the screen is invisible; vis and act are the visibility of the
\* views and the active flags before entry i.
RECURSIVE ActiveChangesWhileInvisible(_, _, _, _)
ActiveChangesWhileInvisible(tr, vis, act, i) ==
  IF i > Len(tr) THEN TRUE
  ELSE IF tr[i][1] = "setVisible"
    THEN ActiveChangesWhileInvisible(tr, [vis EXCEPT ![tr[i][2]] = (tr[i][3] = 1)], act, i + 1)
  ELSE IF tr[i][1] = "activeProperty.set"
    THEN /\ (act[tr[i][2]] # (tr[i][3] = 1)) => ~vis[tr[i][2]]
         /\ ActiveChangesWhileInvisible(tr, vis, [act EXCEPT ![tr[i][2]] = (tr[i][3] = 1)], i + 1)
  ELSE ActiveChangesWhileInvisible(tr, vis, act, i + 1)

\* C23: the active flag of a screen changes only while the view of the
\* screen is invisible: where a screen is made active and visible the flag
\* is set first, where it is made inactive and invisible the flag is set last.
C23_ActiveChangesOnlyWhileInvisible ==
  /\ [](\A x \in SeqToSet(screens), i, j \in 1 .. Len(trace) :
          /\ (trace[i] = <<"activeProperty.set", x, 1>> /\ trace[j] = <<"setVisible", x, 1>>)
               => i < j
          /\ (trace[i] = <<"activeProperty.set", x, 0>> /\ trace[j] = <<"setVisible", x, 0>>)
               => j < i)
  /\ [][ActiveChangesWhileInvisible(trace', viewVisible, screenActive, 1)]_vars
\* A tick whose model step changed the screen from 1 to 2.
C23_Witness ==
  /\ TickRan
  /\ \E i, j \in 1 .. Len(trace) :
       /\ i < j
       /\ trace[i] = <<"setVisible", 1, 0>>
       /\ trace[j] = <<"activeProperty.set", 1, 0>>
  /\ screenActive[2] /\ viewVisible[2] /\ ~screenActive[1] /\ ~viewVisible[1]
\* The last operation reset the pan/zoom transform after it made the view of
\* the current screen visible.
ResetAfterVisible ==
  \E i, j \in 1 .. Len(trace) :
    /\ i < j
    /\ trace[i] = <<"setVisible", screenProperty, 1>>
    /\ trace[j] = <<"resetTransform", screenProperty, 0>>

\* C24 as stated: after every change of the current screen the pan/zoom
\* transform is reset.
C24_ResetAfterEveryChange ==
  [][screenProperty' # screenProperty => ResetAfterVisible']_vars
\* C24: after every change of the current screen that is not made while
\* PhET-iO is setting the state of the sim the pan/zoom transform is reset,
\* after the new screen has been made visible; a change made while PhET-iO
\* is setting the state leaves the transform as it is.
C24_ResetUnlessSettingState ==
  [][screenProperty' # screenProperty =>
       IF Happened("isSettingPhetioStateProperty")'
         THEN ~Happened("resetTransform")'
         ELSE ResetAfterVisible']_vars
C24_Witness ==
  /\ trace[1] = <<"screenProperty.set", screenProperty, 0>>
  /\ Happened("interruptSubtreeInput")
  /\ ResetAfterVisible
\* C25: an operation that assigns the current screen its present value (and
\* so leaves screenProperty as it is) interrupts no input and changes no
\* screen's visibility or active flag; the listeners of screenProperty do
\* not run.
C25_SameScreenIsNoOp ==
  [][screenProperty' = screenProperty =>
       /\ ~Happened("interruptSubtreeInput")'
       /\ ~Happened("setVisible")'
       /\ ~Happened("activeProperty.set")'
       /\ ~Happened("resetTransform")'
       /\ viewVisible' = viewVisible
       /\ screenActive' = screenActive]_vars
\* The button of the current screen was pressed in a sim of several screens:
\* nothing but the assignment happened.
C25_Witness ==
  /\ trace = << <<"screenProperty.set", screenProperty, 0>> >>
  /\ Len(screens) > 1
\* The viewport geometry Sim holds.
Geometry(s) ==
  << s.dimensionProperty, s.scaleProperty, s.boundsProperty, s.screenBoundsProperty >>

LaidOut ==
  Happened("navigationBar.layout") \/ Happened("view.layout") \/ Happened("popup.layout")

\* C27: resize( 0, h ) and resize( w, 0 ) leave the viewport geometry (width
\* and height, scale, full bounds, content bounds) unchanged and lay out
\* nothing.
C27_ZeroAreaResizeKeepsGeometry ==
  [][(trace'[1][1] = "resize" /\ (trace'[1][2] = 0 \/ trace'[1][3] = 0)) =>
       /\ Geometry(Cur)' = Geometry(Cur)
       /\ ~LaidOut']_vars

\* C28: resize with a width or height that is not positive raises no error
\* and lays out nothing.
C28_NonPositiveResizeIsNoOp ==
  [][(trace'[1][1] = "resize" /\ (trace'[1][2] <= 0 \/ trace'[1][3] <= 0)) =>
       /\ ~AssertionFailed'
       /\ ~LaidOut']_vars
C31_InitialScreen ==
  screenData # <<>> =>
    /\ HasChild(screenData.screens, screenData.initialScreen)
    /\ screenData.initialScreen =
         (IF screenData.initialScreenIndex # NoScreen THEN screenData.initialScreenIndex
          ELSE IF HasChild(screenData.screens, HomeScreen) THEN HomeScreen
          ELSE screenData.selectedSimScreens[1])
    /\ (/\ Len(screenData.allSimScreens) = 3
        /\ SeqToSet(screenData.screensQueryParameter) = {2, 3}
        /\ screenData.homeScreenQueryParameter
        /\ screenData.initialScreenIndex = 2) =>
          /\ screenData.screens = <<HomeScreen, 2, 3>>
          /\ screenData.initialScreen = 2
          /\ ~screenData.allScreensCreated
C31_Witness ==
  /\ screenData # <<>>
  /\ screenData.allSimScreens = <<1, 2, 3>>
  /\ screenData.screensQueryParameter = <<2, 3>>
  /\ screenData.initialScreenIndex = 2
  /\ screenData.screens = <<HomeScreen, 2, 3>>
  /\ screenData.initialScreen = 2
\* C32: a tick in which the current screen changes (in the model's step)
\* runs to its end and then steps the view of the screen it selected when it
\* began, if that view has a step; every tick steps the model and the view of
\* the screen that is current when it begins and of no other, so the tick
\* after the change steps the new screen only.
C32_SwitchInTickDoesNotCancel ==
  [][frameCounter' # frameCounter =>
       /\ \A i \in 1 .. Len(trace') :
            trace'[i][1] \in {"model.step", "view.step"} => trace'[i][2] = screenProperty
       /\ screenProperty' # screenProperty =>
            /\ trace'[Len(trace')][1] = "frameEnded"
            /\ HasViewStep(screenProperty) =>
                 \E i, j \in 1 .. Len(trace') :
                   /\ i < j
                   /\ trace'[i] = <<"setVisible", screenProperty', 1>>
                   /\ trace'[j][1] = "view.step"
                   /\ trace'[j][2] = screenProperty]_vars
\* The model's step of screen 1 made screen 2 current; the tick went on to
\* step the view of screen 1.
C32_Witness ==
  /\ TickRan
  /\ screenProperty = 2
  /\ TickScreen = 1
  /\ \E i, j \in 1 .. Len(trace) :
       /\ i < j
       /\ trace[i] = <<"interruptSubtreeInput", 1, 0>>
       /\ trace[j][1] = "view.step"
       /\ trace[j][2] = 1
  /\ trace[Len(trace)][1] = "frameEnded"
\* C33: a resize( w, h ) during which the toolbar's position changes, so that
\* resize is called again before the first call has returned, ends without
\* an error and leaves the viewport geometry a single resize( w, h ) leaves.
C33_ReentrantResizeSafe ==
  [][(trace'[1][1] = "resize" /\ Happened("rightPositionProperty")') =>
       /\ ~Happened("throw")'
       /\ Geometry(Cur)' = Geometry(Resize(Cur, trace'[1][2], trace'[1][3]))]_vars
\* The places in initialized of the calls of one kind for one screen.
InitCalls(what, x) == { i \in 1 .. Len(initialized) : initialized[i] = <<what, x>> }
\* Every screen has had its model and its view initialized.
AllInitialized ==
  \A x \in SeqToSet(screens) :
    InitCalls("initializeModel", x) # {} /\ InitCalls("initializeView", x) # {}

\* C34: in start() the model and the view of each screen are initialized at
\* most once and the view only after the model; isConstructionCompleteProperty
\* is true only when every screen has had both and becomes true after
\* finishInit and before the first stepSimulation, no stepSimulation runs
\* while it is false, and once true it stays true.
C34_ConstructionCompleteAfterInit ==
  /\ [](\A x \in SeqToSet(screens) :
          /\ Cardinality(InitCalls("initializeModel", x)) <= 1
          /\ Cardinality(InitCalls("initializeView", x)) <= 1
          /\ \A j \in InitCalls("initializeView", x) :
               \E i \in InitCalls("initializeModel", x) : i < j)
  /\ [](isConstructionCompleteProperty =>
          AllInitialized /\ Len(initialized) = 2 * Len(screens))
  /\ [][isConstructionCompleteProperty => isConstructionCompleteProperty']_vars
  /\ [][Happened("stepSimulation")' => isConstructionCompleteProperty']_vars
  /\ [][(isConstructionCompleteProperty' /\ ~isConstructionCompleteProperty) =>
         \E i \in Events("finishInit")', j \in Events("isConstructionCompleteProperty")' :
           /\ i < j
           /\ \A k \in Events("stepSimulation")' : j < k]_vars
\* start() has come to its end for a sim of several screens, with the first
\* tick run by the first call of runAnimationLoop.
C34_Witness ==
  /\ isConstructionCompleteProperty
  /\ Len(screens) > 1
  /\ Happened("isConstructionCompleteProperty")
  /\ Happened("stepSimulation")
\* C35: whatever show() and hide() calls the PhetMenu gets (repeated ones
\* and those of its focus listener included), no assertion of showPopup or
\* hidePopup fails for the menu, and the menu is in modalNodeStack and in
\* topLayer exactly when isShowing is true.
C35_MenuShownIffShowing ==
  /\ [](isShowing <=> HasChild(modalNodeStack, PhetMenu))
  /\ [](isShowing <=> HasChild(topLayer, PhetMenu))
  /\ [][~(AssertionFailed' /\ trace'[Len(trace')][2] = PhetMenu)]_vars
\* show() was called for the menu that is showing, under another modal popup.
C35_Witness ==
  /\ isShowing
  /\ trace = << <<"PhetMenu.show", PhetMenu, 0>> >>
  /\ Len(modalNodeStack) > 1
\* PhET-iO or the playback directs the launch, by the query parameters the
\* callback of launch() has read.
LaunchIsDirected ==
  \E i \in Events("readyToProceed") :
    (options.phetio /\ trace[i][3] = 0) \/ options.playbackMode

C37_LocaleIsSupported ==
  /\ [](localeProperty # NoLocale => HasChild(locales, localeProperty))
  /\ [][\A i \in Events("localeProperty.set")' :
          ~HasChild(locales, trace'[i][3]) => localeProperty' = localeProperty]_vars
\* C38: after any sequence of showPopup and hidePopup calls (those that fail
\* change nothing), whatever their isModal flags, every popup in
\* modalNodeStack is a child of topLayer.
C38_StackedPopupsAreDisplayed ==
  \A i \in 1 .. Len(modalNodeStack) : HasChild(topLayer, modalNodeStack[i])
\* After every entry of the trace from entry i on, at most one view is
\* visible and at most one screen is active; vis and act are the visibility
\* of the views and the active flags before entry i.
RECURSIVE AtMostOneThroughout(_, _, _, _)
AtMostOneThroughout(tr, vis, act, i) ==
  IF i > Len(tr) THEN TRUE
  ELSE LET vis1 == IF tr[i][1] = "setVisible"
                     THEN [vis EXCEPT ![tr[i][2]] = (tr[i][3] = 1)] ELSE vis
           act1 == IF tr[i][1] = "activeProperty.set"
                     THEN [act EXCEPT ![tr[i][2]] = (tr[i][3] = 1)] ELSE act
       IN  /\ Cardinality({x \in DOMAIN vis1 : vis1[x]}) <= 1
           /\ Cardinality({x \in DOMAIN act1 : act1[x]}) <= 1
           /\ AtMostOneThroughout(tr, vis1, act1, i + 1)

\* C39: while the listener of screenProperty goes through the screens for a
\* change of screen, at most one view is visible and at most one screen is
\* active after each of its steps, wherever the old and the new screen are
\* in screens.
C39_AtMostOneDuringSwitch ==
  [][screenProperty' # screenProperty =>
       AtMostOneThroughout(trace', viewVisible, screenActive, 1)]_vars
\* The dt of the animation frame timer in the last call of runAnimationLoop.
FrameTimerDT == trace[CHOOSE i \in Events("animationFrameTimer") : TRUE][3]
\* A call of runAnimationLoop outside playback mode, for a sim that is not
\* active, steps nothing, leaves lastStepTime alone and requests a frame.
InactiveFrameIsIdle ==
  /\ frameRequested'
  /\ ~activeProperty =>
       ~TickRan' /\ lastStepTime' = lastStepTime /\ frameCounter' = frameCounter

\* C40 as stated: while the sim is not active (outside playback mode)
\* runAnimationLoop requests the next frame, steps nothing and leaves
\* lastStepTime alone, and a tick of the active sim steps with the whole time
\* since lastStepTime, reduced by the maxDT of the screen only.
C40_StepsWithWholeInterval ==
  [][(Happened("runAnimationLoop")' /\ ~options.playbackMode) =>
       /\ InactiveFrameIsIdle
       /\ (activeProperty /\ TickRan') =>
            /\ TickRawDT' = (lastStepTime' - lastStepTime) \div MsPerSecond
            /\ TickDT' = IF ScreenMaxDT(screenProperty) # 0
                           THEN Min(TickRawDT', ScreenMaxDT(screenProperty))
                           ELSE TickRawDT']_vars
\* C40 as amended: the inactive sim as stated; the active sim calls
\* stepSimulation exactly when the time since lastStepTime is positive, with
\* that time, or with one frame (1/60 s) when no time was recorded; the dt
\* stepped with is that dt times the speed, capped by the maxDT of the screen.
C40_StepsWithTimeSinceLastStep ==
  [][(Happened("runAnimationLoop")' /\ ~options.playbackMode) =>
       /\ InactiveFrameIsIdle
       /\ activeProperty =>
            LET dt == IF lastStepTime = TimeNotRecorded THEN 1
                      ELSE (lastStepTime' - lastStepTime) \div MsPerSecond
            IN  /\ TickRan' <=> dt > 0
                /\ TickRan' => /\ TickRawDT' = dt
                               /\ TickDT' = EffectiveDT(dt, screenProperty)]_vars
\* The first tick after two frames of an inactive sim of speed 2: three dt
\* units after the last step, two after the last frame.
C40_Witness ==
  /\ Happened("runAnimationLoop")
  /\ TickRan
  /\ TickRawDT = 3
  /\ FrameTimerDT = 2
  /\ options.speed = 2
====
